---- MODULE Spec2Model ----
(***************************************************************************)
(* Model of the LDraw parser (ldraw/src/parser.rs).                        *)
(*                                                                         *)
(* Text is modelled character by character: a Rust String / &str is a      *)
(* sequence of one-character strings, so "0 STEP" is                       *)
(* <<"0", " ", "S", "T", "E", "P">> and String::new() is <<>>.             *)
(* A Result is a record with a field ok; Ok carries val (and, for the      *)
(* readers that advance a Chars iterator, rest: what the iterator still    *)
(* holds afterwards), Err carries err, a record [kind, tok].               *)
(***************************************************************************)
EXTENDS Integers, Sequences, FiniteSets, TLC

VARIABLES
    pc,           \* position of the caller: "start", "read", "return", "done", "failed", "fn", "fn_done", "display"
    multipart,    \* parse_inner's multipart argument
    materials,    \* the MaterialRegistry handed to the parse
    input,        \* the lines the line source has yielded so far (an I/O error is IoFailure)
    count,        \* the Enumerate adapter's counter: index of the next item
    name,         \* parse_inner accumulators (parser.rs 345-351)
    author,
    description,
    bfc,
    commands,
    headers,
    next,         \* parse_inner's `next`
    document,     \* parse_multipart_document's `document` (NoDocument before the first return)
    pending,      \* parse_multipart_document's `next`
    subparts,     \* parse_multipart_document's `subparts`
    result,       \* what the entry point returned
    docStart,     \* history: value of count when the running parse_inner was called
    calls,        \* history: number of parse_inner invocations so far
    pool,         \* the lines the line source may yield in this specification
    fn_input,     \* argument of the pure function under test
    fn_output,    \* its result
    display_list  \* DisplayList::map: part alias -> DisplayItem

vars == <<pc, multipart, materials, input, count, name, author, description,
          bfc, commands, headers, next, document, pending, subparts, result,
          docStart, calls, pool, fn_input, fn_output, display_list>>

parserVars == <<multipart, materials, input, count, name, author, description,
                bfc, commands, headers, next, document, pending, subparts,
                result, docStart, calls, pool>>

fnVars == <<fn_input, fn_output>>

rendererVars == <<display_list>>

-----------------------------------------------------------------------------
(* Bounds *)

MaxLines == 4
MaxWords == 3
MaxRgbLen == 7
MaxAttrs == 3
MaxTextLen == 5
MaxArgLow == 300
MaxInstances == 3

-----------------------------------------------------------------------------
(* Generic helpers *)

None == [some |-> FALSE]
Some(v) == [some |-> TRUE, val |-> v]

Ok(v) == [ok |-> TRUE, val |-> v]
OkRest(v, r) == [ok |-> TRUE, val |-> v, rest |-> r]
Err(k, t) == [ok |-> FALSE, err |-> [kind |-> k, tok |-> t]]

\* HashMap::new()
EmptyMap == [k \in {} |-> None]

\* The one element of a singleton set.  A value that is used several times
\* is bound as x in Only({F(x) : x \in {e}}).
Only(S) == CHOOSE v \in S : TRUE

StartsWith(s, p) == Len(s) >= Len(p) /\ SubSeq(s, 1, Len(p)) = p

Drop(s, n) == SubSeq(s, n + 1, Len(s))

-----------------------------------------------------------------------------
(* Lexer *)

is_whitespace(ch) == ch \in {" ", "\t", "\r", "\n"}

\* char::is_whitespace as used by str::trim_end: the Unicode White_Space
\* property.  Of the characters outside is_whitespace the model's alphabet
\* holds the form feed.
IsUnicodeWhiteSpace(ch) == ch \in {" ", "\t", "\r", "\n", "\f"}

RECURSIVE trim_end(_)
trim_end(s) ==
    IF s = <<>> THEN <<>>
    ELSE IF IsUnicodeWhiteSpace(s[Len(s)]) THEN trim_end(SubSeq(s, 1, Len(s) - 1))
    ELSE s

\* The for loop of next_token: <<buffer, what is left in the iterator>>.
RECURSIVE NextTokenLoop(_, _, _)
NextTokenLoop(s, buffer, glob_remaining) ==
    IF s = <<>> THEN <<buffer, <<>>>>
    ELSE LET v == Head(s) IN
         IF ~is_whitespace(v)
           THEN NextTokenLoop(Tail(s), Append(buffer, v), glob_remaining)
         ELSE IF buffer # <<>>
           THEN IF ~glob_remaining
                  THEN <<buffer, Tail(s)>>
                  ELSE NextTokenLoop(Tail(s), Append(buffer, v), glob_remaining)
         ELSE NextTokenLoop(Tail(s), buffer, glob_remaining)

next_token(s, glob_remaining) ==
    LET r == NextTokenLoop(s, <<>>, glob_remaining) IN
    IF Len(r[1]) = 0
      THEN [ok |-> FALSE, err |-> [kind |-> "EndOfLine", tok |-> <<>>], rest |-> r[2]]
      ELSE OkRest(trim_end(r[1]), r[2])

-----------------------------------------------------------------------------
(* Numeric readers *)

\* TLC's integers are 32-bit signed, so a u32 is kept as its two 16-bit
\* halves <<high, low>>, its value being high * 2^16 + low.
Half == 65536

U32(n) == <<n \div Half, n % Half>>

DigitVal(ch) ==
    CASE ch = "0" -> 0 [] ch = "1" -> 1 [] ch = "2" -> 2 [] ch = "3" -> 3
      [] ch = "4" -> 4 [] ch = "5" -> 5 [] ch = "6" -> 6 [] ch = "7" -> 7
      [] ch = "8" -> 8 [] ch = "9" -> 9
      [] ch \in {"a", "A"} -> 10 [] ch \in {"b", "B"} -> 11
      [] ch \in {"c", "C"} -> 12 [] ch \in {"d", "D"} -> 13
      [] ch \in {"e", "E"} -> 14 [] ch \in {"f", "F"} -> 15
      [] OTHER -> 99

IsDigit(ch, radix) == DigitVal(ch) < radix

\* The u32 an all-digit string denotes, None once it exceeds 2^32 - 1.
RECURSIVE U32Digits(_, _, _)
U32Digits(s, radix, acc) ==
    IF s = <<>> THEN Some(acc)
    ELSE LET low == acc[2] * radix + DigitVal(Head(s))
             high == acc[1] * radix + (low \div Half)
         IN IF high >= Half THEN None
            ELSE U32Digits(Tail(s), radix, <<high, low % Half>>)

\* u32::from_str_radix / str::parse::<u32>: an optional '+', then at
\* least one digit, no overflow.
U32FromStr(s, radix) ==
    LET d == IF s # <<>> /\ Head(s) = "+" THEN Tail(s) ELSE s IN
    IF d = <<>> \/ \E i \in 1..Len(d) : ~IsDigit(d[i], radix) THEN None
    ELSE U32Digits(d, radix, <<0, 0>>)

\* next_token_u32 once the token t is read; v is the parsed number.
U32Result(t, v) ==
    IF v.some THEN OkRest(v.val, t.rest)
    ELSE [ok |-> FALSE, err |-> [kind |-> "TypeMismatch_u32", tok |-> t.val],
          rest |-> t.rest]

U32OfToken(t) ==
    IF ~t.ok THEN t
    ELSE Only({U32Result(t, v) :
                 v \in {IF StartsWith(t.val, <<"0", "x">>)
                          THEN U32FromStr(Drop(t.val, 2), 16)
                          ELSE U32FromStr(t.val, 10)}})

next_token_u32(s) == Only({U32OfToken(t) : t \in {next_token(s, FALSE)}})

\* The integer an all-digit decimal string denotes, -1 once it exceeds max.
RECURSIVE DigitsValue(_, _, _)
DigitsValue(s, acc, max) ==
    IF s = <<>> THEN acc
    ELSE LET v == acc * 10 + DigitVal(Head(s)) IN
         IF v > max THEN -1 ELSE DigitsValue(Tail(s), v, max)

\* str::parse::<f32> on the literals the model feeds it: an optional sign
\* and decimal digits, read as the integer they denote (exact in f32 below
\* 2^24).  Every other token of the model's alphabet is no float literal.
F32Exact == 16777216

FloatFromStr(s) ==
    LET neg == s # <<>> /\ Head(s) = "-"
        d == IF s # <<>> /\ Head(s) \in {"+", "-"} THEN Tail(s) ELSE s
    IN IF d = <<>> \/ \E i \in 1..Len(d) : ~IsDigit(d[i], 10) THEN None
       ELSE LET v == DigitsValue(d, 0, F32Exact) IN
            IF v < 0 THEN None ELSE Some(IF neg THEN 0 - v ELSE v)

\* next_token_f32 once the token t is read; v is the parsed number.
F32Result(t, v) ==
    IF v.some THEN OkRest(v.val, t.rest)
    ELSE [ok |-> FALSE, err |-> [kind |-> "TypeMismatch_f32", tok |-> t.val],
          rest |-> t.rest]

F32OfToken(t) ==
    IF ~t.ok THEN t
    ELSE Only({F32Result(t, v) : v \in {FloatFromStr(t.val)}})

next_token_f32(s) == Only({F32OfToken(t) : t \in {next_token(s, FALSE)}})

\* u8::from_str_radix: an optional '+', then at least one digit, no
\* overflow.
U8FromStr(s, radix) ==
    Only({IF v.some /\ v.val[1] = 0 /\ v.val[2] < 256 THEN Some(v.val[2]) ELSE None :
            v \in {U32FromStr(s, radix)}})

\* iterator.take(n).collect::<String>()
Take(s, n) == SubSeq(s, 1, IF n < Len(s) THEN n ELSE Len(s))

\* next_token_rgb from the three two-character strings on (parser.rs 94-107).
RgbResult(rs, gs, bs, r, g, b, rest) ==
    IF ~r.some THEN [ok |-> FALSE, err |-> [kind |-> "TypeMismatch_u8", tok |-> rs], rest |-> rest]
    ELSE IF ~g.some THEN [ok |-> FALSE, err |-> [kind |-> "TypeMismatch_u8", tok |-> gs], rest |-> rest]
    ELSE IF ~b.some THEN [ok |-> FALSE, err |-> [kind |-> "TypeMismatch_u8", tok |-> bs], rest |-> rest]
    ELSE OkRest(<<r.val, g.val, b.val>>, rest)

RgbOfDigits(rs, gs, bs, rest) ==
    Only({RgbResult(rs, gs, bs, r, g, b, rest) :
            r \in {U8FromStr(rs, 16)}, g \in {U8FromStr(gs, 16)}, b \in {U8FromStr(bs, 16)}})

next_token_rgb(s) ==
    IF s = <<>>
      THEN [ok |-> FALSE, err |-> [kind |-> "EndOfLine", tok |-> <<>>], rest |-> <<>>]
    ELSE IF Head(s) # "#"
      THEN [ok |-> FALSE, err |-> [kind |-> "InvalidToken", tok |-> <<Head(s)>>],
            rest |-> Tail(s)]
    ELSE RgbOfDigits(Take(Drop(s, 1), 2), Take(Drop(s, 3), 2), Take(Drop(s, 5), 2),
                     Drop(s, 7))

-----------------------------------------------------------------------------
(* String literals of the source *)

K_NOCERTIFY == <<"N", "O", "C", "E", "R", "T", "I", "F", "Y">>
K_CERTIFY == <<"C", "E", "R", "T", "I", "F", "Y">>
K_CW == <<"C", "W">>
K_CCW == <<"C", "C", "W">>
K_CLIP == <<"C", "L", "I", "P">>
K_NOCLIP == <<"N", "O", "C", "L", "I", "P">>
K_INVERTNEXT == <<"I", "N", "V", "E", "R", "T", "N", "E", "X", "T">>
K_BFC == <<"B", "F", "C">>
K_FILE == <<"F", "I", "L", "E">>
K_STEP == <<"S", "T", "E", "P">>
K_WRITE == <<"W", "R", "I", "T", "E">>
K_PRINT == <<"P", "R", "I", "N", "T">>
K_CLEAR == <<"C", "L", "E", "A", "R">>
K_PAUSE == <<"P", "A", "U", "S", "E">>
K_SAVE == <<"S", "A", "V", "E">>
K_Name == <<"N", "a", "m", "e", ":">>
K_Author == <<"A", "u", "t", "h", "o", "r", ":">>
K_CODE == <<"C", "O", "D", "E">>
K_VALUE == <<"V", "A", "L", "U", "E">>
K_EDGE == <<"E", "D", "G", "E">>
K_ALPHA == <<"A", "L", "P", "H", "A">>
K_LUMINANCE == <<"L", "U", "M", "I", "N", "A", "N", "C", "E">>
K_CHROME == <<"C", "H", "R", "O", "M", "E">>
K_PEARLESCENT == <<"P", "E", "A", "R", "L", "E", "S", "C", "E", "N", "T">>
K_METAL == <<"M", "E", "T", "A", "L">>
K_RUBBER == <<"R", "U", "B", "B", "E", "R">>
K_MATTE_METALLIC == <<"M", "A", "T", "T", "E", "_", "M", "E", "T", "A", "L", "L", "I", "C">>
K_MATERIAL == <<"M", "A", "T", "E", "R", "I", "A", "L">>
K_GLITTER == <<"G", "L", "I", "T", "T", "E", "R">>
K_SPECKLE == <<"S", "P", "E", "C", "K", "L", "E">>
K_FRACTION == <<"F", "R", "A", "C", "T", "I", "O", "N">>
K_VFRACTION == <<"V", "F", "R", "A", "C", "T", "I", "O", "N">>
K_SIZE == <<"S", "I", "Z", "E">>
K_MINSIZE == <<"M", "I", "N", "S", "I", "Z", "E">>
K_MAXSIZE == <<"M", "A", "X", "S", "I", "Z", "E">>
K_COLOUR == <<"C", "O", "L", "O", "U", "R">>
SP == <<" ">>

Phrase(a, b) == a \o SP \o b

-----------------------------------------------------------------------------
(* Type-0 lines *)

Line0Header(k, v) == [tag |-> "Header", key |-> k, value |-> v]
Line0Meta(m) == [tag |-> "Meta", meta |-> m]
Line0File(n) == [tag |-> "File", arg |-> n]
Line0Name(n) == [tag |-> "Name", arg |-> n]
Line0Author(n) == [tag |-> "Author", arg |-> n]
Line0BfcCertification(c) == [tag |-> "BfcCertification", cert |-> c]

NotApplicable == [c |-> "NotApplicable"]
NoCertify == [c |-> "NoCertify"]
Certify(w) == [c |-> "Certify", winding |-> w]

MetaComment(t) == [m |-> "Comment", arg |-> t]
MetaWrite(t) == [m |-> "Write", arg |-> t]
MetaPrint(t) == [m |-> "Print", arg |-> t]
MetaStep == [m |-> "Step"]
MetaClear == [m |-> "Clear"]
MetaPause == [m |-> "Pause"]
MetaSave == [m |-> "Save"]
MetaBfc(st) == [m |-> "Bfc", stmt |-> st]

BfcWinding(w) == [s |-> "Winding", winding |-> w]
BfcClip(w) == [s |-> "Clip", winding |-> w]
BfcNoClip == [s |-> "NoClip"]
BfcInvertNext == [s |-> "InvertNext"]

\* parse_bfc_statement once the phrase t is read.
BfcOfPhrase(t) ==
    IF ~t.ok THEN [ok |-> FALSE, err |-> t.err]
    ELSE LET stmt == t.val IN
      CASE stmt = K_NOCERTIFY -> Ok(Line0BfcCertification(NoCertify))
        [] stmt = K_CERTIFY \/ stmt = Phrase(K_CERTIFY, K_CCW)
             -> Ok(Line0BfcCertification(Certify("Ccw")))
        [] stmt = Phrase(K_CERTIFY, K_CW) -> Ok(Line0BfcCertification(Certify("Cw")))
        [] stmt = K_CW -> Ok(Line0Meta(MetaBfc(BfcWinding("Cw"))))
        [] stmt = K_CCW -> Ok(Line0Meta(MetaBfc(BfcWinding("Ccw"))))
        [] stmt = K_CLIP -> Ok(Line0Meta(MetaBfc(BfcClip(None))))
        [] stmt = Phrase(K_CLIP, K_CW) -> Ok(Line0Meta(MetaBfc(BfcClip(Some("Cw")))))
        [] stmt = Phrase(K_CLIP, K_CCW) -> Ok(Line0Meta(MetaBfc(BfcClip(Some("Ccw")))))
        [] stmt = K_NOCLIP -> Ok(Line0Meta(MetaBfc(BfcNoClip)))
        [] stmt = K_INVERTNEXT -> Ok(Line0Meta(MetaBfc(BfcInvertNext)))
        [] OTHER -> Err("InvalidBfcStatement", stmt)

parse_bfc_statement(s) == Only({BfcOfPhrase(t) : t \in {next_token(s, TRUE)}})

\* The value a `!` header line gets from its read next_token(.., true)?
\* (parser.rs 146), arg being the result of that read.
HeaderValue(arg) ==
    IF arg.ok THEN Ok(arg.val) ELSE [ok |-> FALSE, err |-> arg.err]

\* Mutant of CommentText: only what follows the first token is kept.
CommentText_Remainder(text, cmd, inner) ==
    Only({IF r.ok THEN r.val ELSE <<>> : r \in {next_token(inner, TRUE)}})

\* The text handed on by the fallback arm `_ => Comment(text)` (parser.rs 176).
CommentText(text, cmd, inner) == text

\* parse_line_0 from its dispatch on (parser.rs 144-177): text is the
\* trimmed line, cmd its first token, inner the iterator after it and arg
\* the result of next_token(&mut inner_iterator, true).
Line0Dispatch(text, cmd, inner, arg) ==
    IF StartsWith(cmd, <<"!">>)
      THEN Only({IF value.ok THEN Ok(Line0Header(Drop(cmd, 1), value.val)) ELSE value :
                   value \in {HeaderValue(arg)}})
    ELSE
      CASE cmd = K_BFC -> parse_bfc_statement(inner)
        [] cmd = K_Name ->
             IF arg.ok THEN Ok(Line0Name(arg.val)) ELSE Ok(Line0Name(<<>>))
        [] cmd = K_Author ->
             IF arg.ok THEN Ok(Line0Author(arg.val)) ELSE Ok(Line0Author(<<>>))
        [] cmd = K_FILE ->
             IF arg.ok THEN Ok(Line0File(arg.val))
             ELSE [ok |-> FALSE, err |-> arg.err]
        [] cmd = K_STEP -> Ok(Line0Meta(MetaStep))
        [] cmd = K_WRITE ->
             IF arg.ok THEN Ok(Line0Meta(MetaWrite(arg.val)))
             ELSE [ok |-> FALSE, err |-> arg.err]
        [] cmd = K_PRINT ->
             IF arg.ok THEN Ok(Line0Meta(MetaPrint(arg.val)))
             ELSE [ok |-> FALSE, err |-> arg.err]
        [] cmd = K_CLEAR -> Ok(Line0Meta(MetaClear))
        [] cmd = K_PAUSE -> Ok(Line0Meta(MetaPause))
        [] cmd = K_SAVE -> Ok(Line0Meta(MetaSave))
        [] OTHER -> Ok(Line0Meta(MetaComment(CommentText(text, cmd, inner))))

\* parse_line_0 once cmd, the first token of text, is read (parser.rs 142).
Line0OfCommand(text, c) ==
    IF ~c.ok THEN [ok |-> FALSE, err |-> c.err]
    ELSE Only({Line0Dispatch(text, c.val, c.rest, arg) :
                 arg \in {next_token(c.rest, TRUE)}})

\* parse_line_0 once text is read (parser.rs 136-141).
Line0OfText(t) ==
    IF ~t.ok THEN Ok(Line0Meta(MetaComment(<<>>)))
    ELSE Only({Line0OfCommand(t.val, c) : c \in {next_token(t.val, FALSE)}})

parse_line_0(s) == Only({Line0OfText(t) : t \in {next_token(s, TRUE)}})

-----------------------------------------------------------------------------
(* Geometry lines *)

\* n successive next_token_f32(iterator)? reads; ReadFloatsNext goes on
\* from the result f of one read.
RECURSIVE ReadFloats(_, _, _)
RECURSIVE ReadFloatsNext(_, _, _)
ReadFloats(s, n, acc) ==
    IF n = 0 THEN OkRest(acc, s)
    ELSE Only({ReadFloatsNext(f, n, acc) : f \in {next_token_f32(s)}})

ReadFloatsNext(f, n, acc) ==
    IF ~f.ok THEN [ok |-> FALSE, err |-> f.err]
    ELSE ReadFloats(f.rest, n - 1, Append(acc, f.val))

\* ColorReference::resolve: the registry's material when the code is
\* present, the raw code otherwise.
ColorReference_resolve(code, registry) ==
    IF code \in DOMAIN registry
      THEN [ref |-> "Material", material |-> registry[code]]
      ELSE [ref |-> "Unresolved", code |-> code]

\* PartAlias::from: the name and its normalised (lower-case) form, which is
\* what aliases are compared and hashed by.
LowerChar(ch) ==
    CASE ch = "A" -> "a" [] ch = "B" -> "b" [] ch = "S" -> "s" [] OTHER -> ch

PartAlias_from(n) ==
    [original |-> n, normalized |-> [i \in 1..Len(n) |-> LowerChar(n[i])]]

\* cgmath Matrix4::new takes the sixteen entries column by column; the
\* model keeps a matrix as its four columns.
Matrix4_new(e) ==
    << <<e[1], e[2], e[3], e[4]>>, <<e[5], e[6], e[7], e[8]>>,
       <<e[9], e[10], e[11], e[12]>>, <<e[13], e[14], e[15], e[16]>> >>

transpose(m) == [c \in 1..4 |-> [r \in 1..4 |-> m[r][c]]]

Vector4_new(f, i) == <<f[i], f[i + 1], f[i + 2], 1>>

\* Mutant of PartReference: the matrix is left as Matrix4::new built it.
PartReference_NoTranspose(registry, code, f, nm) ==
    IF ~nm.ok THEN [ok |-> FALSE, err |-> nm.err]
    ELSE Ok([cmd |-> "PartReference",
             color |-> ColorReference_resolve(code, registry),
             matrix |-> Matrix4_new(
                 <<f[4], f[5], f[6], f[1],
                   f[7], f[8], f[9], f[2],
                   f[10], f[11], f[12], f[3],
                   0, 0, 0, 1>>),
             name |-> PartAlias_from(nm.val)])

\* parse_line_1 once everything is read: f holds x, y, z and the nine
\* numbers that follow, in the order read (parser.rs 185-208).
PartReference(registry, code, f, nm) ==
    IF ~nm.ok THEN [ok |-> FALSE, err |-> nm.err]
    ELSE Ok([cmd |-> "PartReference",
             color |-> ColorReference_resolve(code, registry),
             matrix |-> transpose(Matrix4_new(
                 <<f[4], f[5], f[6], f[1],
                   f[7], f[8], f[9], f[2],
                   f[10], f[11], f[12], f[3],
                   0, 0, 0, 1>>)),
             name |-> PartAlias_from(nm.val)])

PartReferenceOfFloats(registry, code, f) ==
    IF ~f.ok THEN f
    ELSE Only({PartReference(registry, code, f.val, nm) :
                 nm \in {next_token(f.rest, TRUE)}})

PartReferenceOfColor(registry, color) ==
    IF ~color.ok THEN [ok |-> FALSE, err |-> color.err]
    ELSE Only({PartReferenceOfFloats(registry, color.val, f) :
                 f \in {ReadFloats(color.rest, 12, <<>>)}})

parse_line_1(registry, s) ==
    Only({PartReferenceOfColor(registry, color) : color \in {next_token_u32(s)}})

\* parse_line_2 .. parse_line_5: a colour code and nv vertices.
VerticesOfFloats(registry, code, f, nv, tag) ==
    IF ~f.ok THEN f
    ELSE Ok([cmd |-> tag,
             color |-> ColorReference_resolve(code, registry),
             vertices |-> [i \in 1..nv |-> Vector4_new(f.val, 3 * i - 2)]])

VerticesOfColor(registry, color, nv, tag) ==
    IF ~color.ok THEN [ok |-> FALSE, err |-> color.err]
    ELSE Only({VerticesOfFloats(registry, color.val, f, nv, tag) :
                 f \in {ReadFloats(color.rest, 3 * nv, <<>>)}})

ParseVertices(registry, s, nv, tag) ==
    Only({VerticesOfColor(registry, color, nv, tag) : color \in {next_token_u32(s)}})

parse_line_2(registry, s) == ParseVertices(registry, s, 2, "Line")
parse_line_3(registry, s) == ParseVertices(registry, s, 3, "Triangle")
parse_line_4(registry, s) == ParseVertices(registry, s, 4, "Quad")
parse_line_5(registry, s) == ParseVertices(registry, s, 4, "OptionalLine")

CommandMeta(m) == [cmd |-> "Meta", meta |-> m]

\* What a parsed line is to the loop body: the value of kind k, or an error.
LineOutcome(r, k) ==
    IF r.ok THEN [kind |-> k, val |-> r.val] ELSE [kind |-> "error", err |-> r.err]

\* The dispatch on the first token t of a line (parser.rs 364-471).
DispatchLine(registry, t) ==
    IF ~t.ok THEN [kind |-> "blank"]
    ELSE
      CASE t.val = <<"0">> ->
             Only({LineOutcome(r, "line0") : r \in {parse_line_0(t.rest)}})
        [] t.val = <<"1">> ->
             Only({LineOutcome(r, "command") : r \in {parse_line_1(registry, t.rest)}})
        [] t.val = <<"2">> ->
             Only({LineOutcome(r, "command") : r \in {parse_line_2(registry, t.rest)}})
        [] t.val = <<"3">> ->
             Only({LineOutcome(r, "command") : r \in {parse_line_3(registry, t.rest)}})
        [] t.val = <<"4">> ->
             Only({LineOutcome(r, "command") : r \in {parse_line_4(registry, t.rest)}})
        [] t.val = <<"5">> ->
             Only({LineOutcome(r, "command") : r \in {parse_line_5(registry, t.rest)}})
        [] OTHER -> [kind |-> "error",
                     err |-> [kind |-> "UnexpectedCommand", tok |-> t.val]]

\* What one raw line is to parse_inner's loop body (parser.rs 363-471),
\* before the accumulators are touched: nothing (a line without a token),
\* a decoded type-0 line, a geometry command, or an error.
DecodeLine(registry, line) ==
    Only({DispatchLine(registry, t) : t \in {next_token(line, FALSE)}})

-----------------------------------------------------------------------------
(* Colour definitions *)

\* Mutant of AsU8: a value above 255 is stored as 255.
AsU8_Saturating(v) == IF v[1] > 0 \/ v[2] > 255 THEN 255 ELSE v[2]

\* `as u8` of a u32: the low eight bits.
AsU8(v) == v[2] % 256

Rgba_new(rgb, a) == [r |-> rgb[1], g |-> rgb[2], b |-> rgb[3], a |-> a]

Plastic == [finish |-> "Plastic"]
Chrome == [finish |-> "Chrome"]
Pearlescent == [finish |-> "Pearlescent"]
Metal == [finish |-> "Metal"]
Rubber == [finish |-> "Rubber"]
MatteMetallic == [finish |-> "MatteMetallic"]
Custom(m) == [finish |-> "Custom", material |-> m]

\* The locals the GLITTER and SPECKLE arms start from (parser.rs 523-529,
\* 586-591).
CustomDefaults(kind) ==
    IF kind = K_GLITTER
      THEN [alpha |-> 255, luminance |-> 0, fraction |-> 0, vfraction |-> 0,
            size |-> U32(0), minsize |-> 0, maxsize |-> 0]
      ELSE [alpha |-> 255, luminance |-> 0, fraction |-> 0,
            size |-> U32(0), minsize |-> 0, maxsize |-> 0]

\* The local a keyword of the GLITTER or SPECKLE loop assigns, "none" for a
\* token the loop does not know (parser.rs 546-573, 608-632).
CustomField(kind, token) ==
    CASE token = K_ALPHA -> "alpha"
      [] token = K_LUMINANCE -> "luminance"
      [] token = K_FRACTION -> "fraction"
      [] token = K_VFRACTION /\ kind = K_GLITTER -> "vfraction"
      [] token = K_SIZE -> "size"
      [] token = K_MINSIZE -> "minsize"
      [] token = K_MAXSIZE -> "maxsize"
      [] OTHER -> "none"

\* A u32 read and cast: next_token_u32(iterator)? as u8.
U8OfU32(v) == IF v.ok THEN OkRest(AsU8(v.val), v.rest) ELSE v

next_token_u32_as_u8(s) == Only({U8OfU32(v) : v \in {next_token_u32(s)}})

\* The read that follows a keyword of the GLITTER or SPECKLE loop.
CustomRead(field, s) ==
    CASE field \in {"alpha", "luminance"} -> next_token_u32_as_u8(s)
      [] field = "size" -> next_token_u32(s)
      [] OTHER -> next_token_f32(s)

\* The loops of parse_customized_material (parser.rs 539-574, 601-633):
\* acc holds the locals.
RECURSIVE CustomAttributes(_, _, _)
RECURSIVE CustomAttributesOfToken(_, _, _)
RECURSIVE CustomAttributesOfValue(_, _, _, _)
CustomAttributes(kind, s, acc) ==
    Only({CustomAttributesOfToken(kind, t, acc) : t \in {next_token(s, FALSE)}})

CustomAttributesOfToken(kind, t, acc) ==
    IF ~t.ok THEN Ok(acc)
    ELSE IF CustomField(kind, t.val) = "none" THEN Err("InvalidToken", t.val)
    ELSE Only({CustomAttributesOfValue(kind, CustomField(kind, t.val), v, acc) :
                 v \in {CustomRead(CustomField(kind, t.val), t.rest)}})

CustomAttributesOfValue(kind, field, v, acc) ==
    IF ~v.ok THEN [ok |-> FALSE, err |-> v.err]
    ELSE CustomAttributes(kind, v.rest, [acc EXCEPT ![field] = v.val])

\* CustomizedMaterial::Glitter / Speckle (parser.rs 575-583, 634-641).
CustomMaterial(kind, rgb, a) ==
    IF ~a.ok THEN a
    ELSE IF kind = K_GLITTER
      THEN Ok([custom |-> "Glitter", value |-> Rgba_new(rgb, a.val.alpha),
               luminance |-> a.val.luminance, fraction |-> a.val.fraction,
               vfraction |-> a.val.vfraction, size |-> a.val.size,
               minsize |-> a.val.minsize, maxsize |-> a.val.maxsize])
      ELSE Ok([custom |-> "Speckle", value |-> Rgba_new(rgb, a.val.alpha),
               luminance |-> a.val.luminance, fraction |-> a.val.fraction,
               size |-> a.val.size,
               minsize |-> a.val.minsize, maxsize |-> a.val.maxsize])

CustomOfRgb(kind, c) ==
    IF ~c.ok THEN [ok |-> FALSE, err |-> c.err]
    ELSE Only({CustomMaterial(kind, c.val, a) :
                 a \in {CustomAttributes(kind, c.rest, CustomDefaults(kind))}})

CustomOfValueWord(kind, w) ==
    IF ~w.ok THEN [ok |-> FALSE, err |-> w.err]
    ELSE IF w.val # K_VALUE THEN Err("InvalidToken", w.val)
    ELSE Only({CustomOfRgb(kind, c) : c \in {next_token_rgb(w.rest)}})

CustomOfKind(k) ==
    IF ~k.ok THEN [ok |-> FALSE, err |-> k.err]
    ELSE IF k.val \notin {K_GLITTER, K_SPECKLE} THEN Err("UnknownMaterial", k.val)
    ELSE Only({CustomOfValueWord(k.val, w) : w \in {next_token(k.rest, FALSE)}})

parse_customized_material(s) ==
    Only({CustomOfKind(k) : k \in {next_token(s, FALSE)}})

\* The locals the loop body of parse_color_definition starts from
\* (parser.rs 656-658).
ColourDefaults == [finish |-> Plastic, alpha |-> 255, luminance |-> 0]

FinishFlags == {K_CHROME, K_PEARLESCENT, K_METAL, K_RUBBER, K_MATTE_METALLIC}

FinishOfFlag(token) ==
    CASE token = K_CHROME -> Chrome
      [] token = K_PEARLESCENT -> Pearlescent
      [] token = K_METAL -> Metal
      [] token = K_RUBBER -> Rubber
      [] token = K_MATTE_METALLIC -> MatteMetallic

\* The trailing-attribute loop of parse_color_definition (parser.rs 693-731):
\* acc holds finish, alpha and luminance.
RECURSIVE ColourAttributes(_, _)
RECURSIVE ColourAttributesOfToken(_, _)
RECURSIVE ColourAttributesOfU8(_, _, _)
RECURSIVE ColourAttributesOfCustom(_, _)
ColourAttributes(s, acc) ==
    Only({ColourAttributesOfToken(t, acc) : t \in {next_token(s, FALSE)}})

\* Mutant of ColourAttributesOfToken: a finish flag ends the loop.
ColourAttributesOfToken_FlagEnds(t, acc) ==
    IF ~t.ok THEN Ok(acc)
    ELSE
      CASE t.val \in {K_ALPHA, K_LUMINANCE} ->
             Only({ColourAttributesOfU8(t.val, v, acc) : v \in {next_token_u32_as_u8(t.rest)}})
        [] t.val \in FinishFlags ->
             Ok([acc EXCEPT !.finish = FinishOfFlag(t.val)])
        [] t.val = K_MATERIAL ->
             Only({ColourAttributesOfCustom(m, acc) : m \in {parse_customized_material(t.rest)}})
        [] OTHER -> Err("InvalidToken", t.val)

ColourAttributesOfToken(t, acc) ==
    IF ~t.ok THEN Ok(acc)
    ELSE
      CASE t.val \in {K_ALPHA, K_LUMINANCE} ->
             Only({ColourAttributesOfU8(t.val, v, acc) : v \in {next_token_u32_as_u8(t.rest)}})
        [] t.val \in FinishFlags ->
             ColourAttributes(t.rest, [acc EXCEPT !.finish = FinishOfFlag(t.val)])
        [] t.val = K_MATERIAL ->
             Only({ColourAttributesOfCustom(m, acc) : m \in {parse_customized_material(t.rest)}})
        [] OTHER -> Err("InvalidToken", t.val)

ColourAttributesOfU8(key, v, acc) ==
    IF ~v.ok THEN [ok |-> FALSE, err |-> v.err]
    ELSE IF key = K_ALPHA
      THEN ColourAttributes(v.rest, [acc EXCEPT !.alpha = v.val])
      ELSE ColourAttributes(v.rest, [acc EXCEPT !.luminance = v.val])

\* parse_customized_material leaves nothing in the iterator when it succeeds.
ColourAttributesOfCustom(m, acc) ==
    IF ~m.ok THEN m
    ELSE ColourAttributes(<<>>, [acc EXCEPT !.finish = Custom(m.val)])

\* The Material inserted for one COLOUR header (parser.rs 735-742).
MaterialOfAttributes(nm, code, color, edge, a) ==
    IF ~a.ok THEN a
    ELSE Ok([code |-> code, name |-> nm,
             color |-> Rgba_new(color, a.val.alpha),
             edge |-> Rgba_new(edge, 255),
             luminance |-> a.val.luminance,
             finish |-> a.val.finish])

MaterialOfEdge(nm, code, color, e) ==
    IF ~e.ok THEN [ok |-> FALSE, err |-> e.err]
    ELSE Only({MaterialOfAttributes(nm, code, color, e.val, a) :
                 a \in {ColourAttributes(e.rest, ColourDefaults)}})

MaterialOfEdgeWord(nm, code, color, w) ==
    IF ~w.ok THEN [ok |-> FALSE, err |-> w.err]
    ELSE IF w.val # K_EDGE THEN Err("InvalidToken", w.val)
    ELSE Only({MaterialOfEdge(nm, code, color, e) : e \in {next_token_rgb(w.rest)}})

MaterialOfColor(nm, code, v) ==
    IF ~v.ok THEN [ok |-> FALSE, err |-> v.err]
    ELSE Only({MaterialOfEdgeWord(nm, code, v.val, w) : w \in {next_token(v.rest, FALSE)}})

MaterialOfValueWord(nm, code, w) ==
    IF ~w.ok THEN [ok |-> FALSE, err |-> w.err]
    ELSE IF w.val # K_VALUE THEN Err("InvalidToken", w.val)
    ELSE Only({MaterialOfColor(nm, code, v) : v \in {next_token_rgb(w.rest)}})

MaterialOfCode(nm, c) ==
    IF ~c.ok THEN [ok |-> FALSE, err |-> c.err]
    ELSE Only({MaterialOfValueWord(nm, c.val, w) : w \in {next_token(c.rest, FALSE)}})

\* Mutant of MaterialOfCodeWord: the literal before the code is not compared.
MaterialOfCodeWord_AnyLiteral(nm, w) ==
    IF ~w.ok THEN [ok |-> FALSE, err |-> w.err]
    ELSE Only({MaterialOfCode(nm, c) : c \in {next_token_u32(w.rest)}})

MaterialOfCodeWord(nm, w) ==
    IF ~w.ok THEN [ok |-> FALSE, err |-> w.err]
    ELSE IF w.val # K_CODE THEN Err("InvalidToken", w.val)
    ELSE Only({MaterialOfCode(nm, c) : c \in {next_token_u32(w.rest)}})

MaterialOfName(n) ==
    IF ~n.ok THEN [ok |-> FALSE, err |-> n.err]
    ELSE Only({MaterialOfCodeWord(n.val, w) : w \in {next_token(n.rest, FALSE)}})

\* The body of the for loop of parse_color_definition up to the insert
\* (parser.rs 656-731), value being the value of the header.
MaterialOfHeader(value) ==
    Only({MaterialOfName(n) : n \in {next_token(value, FALSE)}})

-----------------------------------------------------------------------------
(* The inputs of the model *)

\* The registry handed to the parse: one material, at code 4.
Registry0 == [c \in {U32(4)} |-> [code |-> U32(4), name |-> <<"R", "e", "d">>]]

\* Raw lines a line source may yield (Lines strips the line terminator).
L_FileA == <<"0", " ", "F", "I", "L", "E", " ", "a">>
L_FileB == <<"0", " ", " ", "F", "I", "L", "E", " ", "B", " ">>
L_FileNoName == <<"0", " ", "F", "I", "L", "E">>
L_Description == <<"0", " ", "d">>
L_Comment == <<"0", " ", "c", " ", " ", "x">>
L_EmptyComment == <<"0">>
L_Blank == <<" ">>
L_Step == <<"0", " ", "S", "T", "E", "P">>
L_Header == <<"0", " ", "!", "K", " ", "v">>
L_Name == <<"0", " ", "N", "a", "m", "e", ":", " ", "n">>
L_Author == <<"0", " ", "A", "u", "t", "h", "o", "r", ":", " ", "u">>
L_Certify == <<"0", " ", "B", "F", "C", " ", "C", "E", "R", "T", "I", "F", "Y">>
L_NameNone == <<"0", " ", "N", "a", "m", "e", ":">>
L_AuthorB == <<"0", " ", "A", "u", "t", "h", "o", "r", ":", " ", "w", " ", "w">>
L_NoCertify == <<"0", " ", "B", "F", "C", " ", "N", "O", "C", "E", "R", "T", "I", "F", "Y">>
L_BfcCw == <<"0", " ", "B", "F", "C", " ", "C", "W">>
L_PartRef == <<"1", " ", "4", " ", "1", " ", "2", " ", "3", " ", "1", " ", "0", " ", "0", " ", "0", " ", "1", " ", "0", " ", "0", " ", "0", " ", "1", " ", "S">>
L_Line == <<"2", " ", "1", "6", " ", "0", " ", "0", " ", "0", " ", "1", " ", "1", " ", "1">>
L_LineShort == <<"2", " ", "1", "6", " ", "0", " ", "0", " ", "0", " ", "1", " ", "1">>
L_Unknown == <<"9", " ", "x">>
L_ColRed4 == <<"0", " ", "!", "C", "O", "L", "O", "U", "R", " ", "R", "e", "d", " ", "C", "O", "D", "E", " ", "4", " ", "V", "A", "L", "U", "E", " ", "#", "F", "F", "0", "0", "0", "0", " ", "E", "D", "G", "E", " ", "#", "7", "F", "0", "0", "0", "0">>
L_ColBlue4 == <<"0", " ", "!", "C", "O", "L", "O", "U", "R", " ", "B", " ", "C", "O", "D", "E", " ", "0", "x", "4", " ", "V", "A", "L", "U", "E", " ", "#", "0", "0", "0", "0", "F", "F", " ", "E", "D", "G", "E", " ", "#", "0", "0", "0", "0", "0", "0", " ", "A", "L", "P", "H", "A", " ", "1", "2", "8">>
L_ColGrey7 == <<"0", " ", "!", "C", "O", "L", "O", "U", "R", " ", "G", " ", "C", "O", "D", "E", " ", "7", " ", "V", "A", "L", "U", "E", " ", "#", "7", "F", "7", "F", "7", "F", " ", "E", "D", "G", "E", " ", "#", "0", "0", "0", "0", "0", "0", " ", "C", "H", "R", "O", "M", "E">>
L_ColNoHash == <<"0", " ", "!", "C", "O", "L", "O", "U", "R", " ", "x", " ", "C", "O", "D", "E", " ", "4", " ", "V", "A", "L", "U", "E", " ", "F", "F", "0", "0", "0", "0", " ", "E", "D", "G", "E", " ", "#", "7", "F", "0", "0", "0", "0">>
L_ColLower == <<"0", " ", "!", "c", "o", "l", "o", "u", "r", " ", "R", "e", "d", " ", "C", "O", "D", "E", " ", "9", " ", "V", "A", "L", "U", "E", " ", "#", "F", "F", "0", "0", "0", "0", " ", "E", "D", "G", "E", " ", "#", "7", "F", "0", "0", "0", "0">>

\* What an item of the line source is when reading it failed (parser.rs 356).
IoFailure == <<"io::Error">>

\* The line source draws its lines from one of three pools: one to exercise
\* the boundaries of a multipart stream, one to exercise the accumulators,
\* one to exercise the lines that write name, author and certification.
PoolBoundary ==
    {L_FileA, L_FileB, L_FileNoName, L_Description, L_Comment, L_EmptyComment,
     L_Blank, L_Step, L_PartRef, L_Unknown}

PoolFields ==
    {L_FileA, L_Description, L_Comment, L_EmptyComment, L_Step, L_Header,
     L_Name, L_Author, L_Certify, L_Line}

PoolWriters ==
    {L_FileA, L_Description, L_Name, L_NameNone, L_Author, L_AuthorB,
     L_Certify, L_NoCertify, L_BfcCw, L_LineShort}

Pools == {PoolBoundary, PoolFields, PoolWriters}

\* The lines of a colour definition file.
PoolColour ==
    {L_ColRed4, L_ColBlue4, L_ColGrey7, L_ColNoHash, L_ColLower, L_Description,
     L_Unknown}

Registries == <<Registry0, EmptyMap>>
AllLines == UNION Pools \cup PoolColour

\* DecodeLine, tabulated over the registries and lines of the model.
DecodeTable ==
    [i \in DOMAIN Registries |-> [l \in AllLines |-> DecodeLine(Registries[i], l)]]

Decode(registry, line) ==
    IF \E i \in DOMAIN Registries : Registries[i] = registry
      THEN DecodeTable[CHOOSE i \in DOMAIN Registries : Registries[i] = registry][line]
      ELSE DecodeLine(registry, line)

-----------------------------------------------------------------------------
(* parse_inner, parse_single_document, parse_multipart_document *)

Document(n, d, a, b, h, c) ==
    [name |-> n, description |-> d, author |-> a, bfc |-> b,
     headers |-> h, commands |-> c]

\* The Document parse_inner builds from its accumulators (parser.rs 475-482).
CurrentDocument == Document(name, description, author, bfc, headers, commands)

\* Mutant of ErrorLine: the 0-based index is reported.
ErrorLine_ZeroBased(index) == index

\* The line number of an error met on the item `index` of the Enumerate
\* adapter (parser.rs 358, 379, 407, ...).
ErrorLine(index) == index + 1

DocumentParseError(index, e) ==
    [ok |-> FALSE, err |-> [line |-> ErrorLine(index), error |-> e]]

MultipartDocumentError == [kind |-> "MultipartDocument", tok |-> <<>>]
IoError == [kind |-> "IoError", tok |-> <<>>]

\* HashMap::insert: the entry of an equal key is replaced.
Insert(map, key, value) ==
    [k \in DOMAIN map \cup {key} |-> IF k = key THEN value ELSE map[k]]

\* The locals parse_inner starts from (parser.rs 345-351).
EnterParseInner(mp) ==
    /\ multipart' = mp
    /\ next' = None
    /\ name' = <<>>
    /\ author' = <<>>
    /\ description' = <<>>
    /\ bfc' = NotApplicable
    /\ commands' = <<>>
    /\ headers' = <<>>
    /\ docStart' = count
    /\ calls' = calls + 1
    /\ pc' = "read"

accumulators == <<name, author, description, bfc, commands, headers>>
driverVars == <<document, pending, subparts, result>>
callVars == <<multipart, materials, docStart, calls, pool>>

\* parse_single_document up to its call of parse_inner (parser.rs 491-492).
CallSingle ==
    /\ pc = "start"
    /\ EnterParseInner(FALSE)
    /\ UNCHANGED <<materials, input, count, driverVars, pool, fnVars, rendererVars>>

\* parse_multipart_document up to its first call of parse_inner (501-502).
CallMultipart ==
    /\ pc = "start"
    /\ EnterParseInner(TRUE)
    /\ UNCHANGED <<materials, input, count, driverVars, pool, fnVars, rendererVars>>

\* iterator.next() yielding the item (count, line): one more raw line.
Yield(line) ==
    /\ pc = "read"
    /\ Len(input) < MaxLines
    /\ input' = Append(input, line)
    /\ count' = count + 1

\* The error return of parse_inner, which `?` hands on to the caller.
Fail(e) ==
    /\ pc' = "failed"
    /\ result' = DocumentParseError(count, e)
    /\ UNCHANGED <<accumulators, next, document, pending, subparts, callVars, fnVars, rendererVars>>

Continue ==
    /\ pc' = "read"
    /\ UNCHANGED <<driverVars, callVars, fnVars, rendererVars>>

\* line_ is Err(e) (parser.rs 356-361)
ReadIoError ==
    /\ Yield(IoFailure)
    /\ Fail(IoError)

\* next_token gives EndOfLine: the line holds no token (parser.rs 464)
ReadBlank ==
    /\ pc = "read"
    /\ \E line \in pool : \E d \in {Decode(materials, line)} :
        /\ Yield(line)
        /\ d.kind = "blank"
        /\ Continue
        /\ UNCHANGED <<accumulators, next>>

\* any Err arm (parser.rs 405, 414, 423, 432, 441, 450, 457)
ReadError ==
    /\ pc = "read"
    /\ \E line \in pool : \E d \in {Decode(materials, line)} :
        /\ Yield(line)
        /\ d.kind = "error"
        /\ Fail(d.err)

\* Mutant of Push: the command is put in front.
Push_Front(cs, c) == <<c>> \o cs

\* push of a command at the end of the command list (Vec::push)
Push(cs, c) == Append(cs, c)

\* "1" .. "5" with Ok(val) (parser.rs 412-456)
ReadCommand ==
    /\ pc = "read"
    /\ \E line \in pool : \E d \in {Decode(materials, line)} :
        /\ Yield(line)
        /\ d.kind = "command"
        /\ commands' = Push(commands, d.val)
        /\ Continue
        /\ UNCHANGED <<name, author, description, bfc, headers, next>>

\* Line0::BfcCertification (parser.rs 368-370)
ReadBfcCertification ==
    /\ pc = "read"
    /\ \E line \in pool : \E d \in {Decode(materials, line)} :
        /\ Yield(line)
        /\ d.kind = "line0" /\ d.val.tag = "BfcCertification"
        /\ bfc' = d.val.cert
        /\ Continue
        /\ UNCHANGED <<name, author, description, commands, headers, next>>

\* Mutant of IsBoundary: every FILE line of a multipart parse is a boundary.
IsBoundary_AnyFile(mp, desc) == mp

\* The test that makes a FILE line a boundary (parser.rs 372-373).
IsBoundary(mp, desc) == mp /\ desc # <<>>

\* Mutant of ReadFileBoundary: the pending name is set but the loop goes on.
ReadFileBoundary_NoBreak ==
    /\ pc = "read"
    /\ \E line \in pool : \E d \in {Decode(materials, line)} :
        /\ Yield(line)
        /\ d.kind = "line0" /\ d.val.tag = "File"
        /\ multipart
        /\ IsBoundary(multipart, description)
        /\ next' = Some(d.val.arg)
        /\ pc' = "read"
        /\ UNCHANGED <<accumulators, driverVars, callVars, fnVars, rendererVars>>

\* Line0::File, multipart, description set: break 'read_loop (374-375)
ReadFileBoundary ==
    /\ pc = "read"
    /\ \E line \in pool : \E d \in {Decode(materials, line)} :
        /\ Yield(line)
        /\ d.kind = "line0" /\ d.val.tag = "File"
        /\ multipart
        /\ IsBoundary(multipart, description)
        /\ next' = Some(d.val.arg)
        /\ pc' = "return"
        /\ UNCHANGED <<accumulators, driverVars, callVars, fnVars, rendererVars>>

\* Mutant of ReadFileDiscard: a FILE line met with an empty description ends
\* the document as well.
ReadFileDiscard_Breaks ==
    /\ pc = "read"
    /\ \E line \in pool : \E d \in {Decode(materials, line)} :
        /\ Yield(line)
        /\ d.kind = "line0" /\ d.val.tag = "File"
        /\ multipart
        /\ ~IsBoundary(multipart, description)
        /\ next' = Some(d.val.arg)
        /\ pc' = "return"
        /\ UNCHANGED <<accumulators, driverVars, callVars, fnVars, rendererVars>>

\* Line0::File, multipart, description empty: nothing happens (372-376)
ReadFileDiscard ==
    /\ pc = "read"
    /\ \E line \in pool : \E d \in {Decode(materials, line)} :
        /\ Yield(line)
        /\ d.kind = "line0" /\ d.val.tag = "File"
        /\ multipart
        /\ ~IsBoundary(multipart, description)
        /\ Continue
        /\ UNCHANGED <<accumulators, next>>

\* Mutant of ReadFileSingle: the FILE line is dropped as in multipart mode.
ReadFileSingle_Discards ==
    /\ pc = "read"
    /\ \E line \in pool : \E d \in {Decode(materials, line)} :
        /\ Yield(line)
        /\ d.kind = "line0" /\ d.val.tag = "File"
        /\ ~multipart
        /\ Continue
        /\ UNCHANGED <<accumulators, next>>

\* Line0::File, not multipart (parser.rs 377-382)
ReadFileSingle ==
    /\ pc = "read"
    /\ \E line \in pool : \E d \in {Decode(materials, line)} :
        /\ Yield(line)
        /\ d.kind = "line0" /\ d.val.tag = "File"
        /\ ~multipart
        /\ Fail(MultipartDocumentError)

\* Mutant of ReadName: a name that is set is kept.
ReadName_FirstWins ==
    /\ pc = "read"
    /\ \E line \in pool : \E d \in {Decode(materials, line)} :
        /\ Yield(line)
        /\ d.kind = "line0" /\ d.val.tag = "Name"
        /\ name' = IF name = <<>> THEN d.val.arg ELSE name
        /\ Continue
        /\ UNCHANGED <<author, description, bfc, commands, headers, next>>

\* Line0::Name (parser.rs 384-386)
ReadName ==
    /\ pc = "read"
    /\ \E line \in pool : \E d \in {Decode(materials, line)} :
        /\ Yield(line)
        /\ d.kind = "line0" /\ d.val.tag = "Name"
        /\ name' = d.val.arg
        /\ Continue
        /\ UNCHANGED <<author, description, bfc, commands, headers, next>>

\* Line0::Author (parser.rs 387-389)
ReadAuthor ==
    /\ pc = "read"
    /\ \E line \in pool : \E d \in {Decode(materials, line)} :
        /\ Yield(line)
        /\ d.kind = "line0" /\ d.val.tag = "Author"
        /\ author' = d.val.arg
        /\ Continue
        /\ UNCHANGED <<name, description, bfc, commands, headers, next>>

\* Mutant of ReadMeta: every comment line overwrites the description.
ReadMeta_LastCommentWins ==
    /\ pc = "read"
    /\ \E line \in pool : \E d \in {Decode(materials, line)} :
        /\ Yield(line)
        /\ d.kind = "line0" /\ d.val.tag = "Meta"
        /\ IF d.val.meta.m = "Comment"
             THEN /\ description' = d.val.meta.arg
                  /\ UNCHANGED commands
             ELSE /\ commands' = Append(commands, CommandMeta(d.val.meta))
                  /\ UNCHANGED description
        /\ Continue
        /\ UNCHANGED <<name, author, bfc, headers, next>>

\* Line0::Meta (parser.rs 390-400)
ReadMeta ==
    /\ pc = "read"
    /\ \E line \in pool : \E d \in {Decode(materials, line)} :
        /\ Yield(line)
        /\ d.kind = "line0" /\ d.val.tag = "Meta"
        /\ IF d.val.meta.m = "Comment"
             THEN IF description = <<>>
                    THEN /\ description' = d.val.meta.arg
                         /\ UNCHANGED commands
                    ELSE /\ commands' = Push(commands, CommandMeta(MetaComment(d.val.meta.arg)))
                         /\ UNCHANGED description
             ELSE /\ commands' = Push(commands, CommandMeta(d.val.meta))
                  /\ UNCHANGED description
        /\ Continue
        /\ UNCHANGED <<name, author, bfc, headers, next>>

\* Line0::Header (parser.rs 401-403)
ReadHeader ==
    /\ pc = "read"
    /\ \E line \in pool : \E d \in {Decode(materials, line)} :
        /\ Yield(line)
        /\ d.kind = "line0" /\ d.val.tag = "Header"
        /\ headers' = Append(headers, [key |-> d.val.key, value |-> d.val.value])
        /\ Continue
        /\ UNCHANGED <<name, author, description, bfc, commands, next>>

\* iterator.next() is None: the loop ends (parser.rs 353)
EndOfInput ==
    /\ pc = "read"
    /\ pc' = "return"
    /\ UNCHANGED <<parserVars, fnVars, rendererVars>>

\* parse_single_document gets the Ok of parse_inner (parser.rs 492-494)
ReturnSingle ==
    /\ pc = "return"
    /\ ~multipart
    /\ result' = Ok(CurrentDocument)
    /\ pc' = "done"
    /\ UNCHANGED <<accumulators, next, input, count, document, pending,
                   subparts, callVars, fnVars, rendererVars>>

\* Mutant of DriverLoop: the driver returns after one iteration, whatever
\* name is pending.
DriverLoop_Once(p, body, parts) ==
    /\ result' = Ok([body |-> body, subparts |-> parts])
    /\ pc' = "done"
    /\ UNCHANGED <<accumulators, next, callVars>>

\* The while loop of parse_multipart_document (parser.rs 505-515), entered
\* with the driver's next being p: another parse_inner, or the result.
DriverLoop(p, body, parts) ==
    IF p.some
      THEN /\ EnterParseInner(TRUE)
           /\ UNCHANGED result
      ELSE /\ result' = Ok([body |-> body, subparts |-> parts])
           /\ pc' = "done"
           /\ UNCHANGED <<accumulators, next, callVars>>

\* parse_multipart_document gets the Ok of its first parse_inner (502-503)
ReturnBody ==
    /\ pc = "return"
    /\ multipart
    /\ ~document.some
    /\ document' = Some(CurrentDocument)
    /\ pending' = next
    /\ subparts' = EmptyMap
    /\ DriverLoop(next, CurrentDocument, EmptyMap)
    /\ UNCHANGED <<materials, input, count, pool, fnVars, rendererVars>>

\* The key a sub-document is stored under (parser.rs 508).
SubpartKey(n) == PartAlias_from(n).normalized

\* parse_multipart_document gets the Ok of a later parse_inner (506-509)
ReturnSub ==
    /\ pc = "return"
    /\ multipart
    /\ document.some
    /\ subparts' = Insert(subparts, SubpartKey(pending.val), CurrentDocument)
    /\ pending' = next
    /\ DriverLoop(next, document.val, subparts')
    /\ UNCHANGED <<document, materials, input, count, pool, fnVars, rendererVars>>

Init ==
    /\ pc = "start"
    /\ multipart = FALSE
    /\ materials = Registry0
    /\ input = <<>>
    /\ count = 0
    /\ name = <<>>
    /\ author = <<>>
    /\ description = <<>>
    /\ bfc = NotApplicable
    /\ commands = <<>>
    /\ headers = <<>>
    /\ next = None
    /\ document = None
    /\ pending = None
    /\ subparts = EmptyMap
    /\ result = None
    /\ docStart = 0
    /\ calls = 0
    /\ pool \in Pools
    /\ fn_input = None
    /\ fn_output = None
    /\ display_list = EmptyMap

Next ==
    \/ CallSingle
    \/ CallMultipart
    \/ ReadIoError
    \/ ReadBlank
    \/ ReadError
    \/ ReadCommand
    \/ ReadBfcCertification
    \/ ReadFileBoundary
    \/ ReadFileDiscard
    \/ ReadFileSingle
    \/ ReadName
    \/ ReadAuthor
    \/ ReadMeta
    \/ ReadHeader
    \/ EndOfInput
    \/ ReturnSingle
    \/ ReturnBody
    \/ ReturnSub

Spec == Init /\ [][Next]_vars

\* parse_multipart_document alone, run to its end: the caller executes the
\* function without stopping, so a step is taken whenever one is possible.
\* The line source is finite: it yields at most MaxLines lines.
InitMultipart ==
    /\ Init
    /\ pool = PoolBoundary

NextMultipart ==
    \/ CallMultipart
    \/ ReadIoError
    \/ ReadBlank
    \/ ReadError
    \/ ReadCommand
    \/ ReadFileBoundary
    \/ ReadFileDiscard
    \/ ReadMeta
    \/ EndOfInput
    \/ ReturnBody
    \/ ReturnSub

SpecMultipart == InitMultipart /\ [][NextMultipart]_vars /\ WF_vars(NextMultipart)

-----------------------------------------------------------------------------
(* parse_color_definition *)

\* parse_color_definition runs parse_single_document with an empty registry
\* (CallSingle .. ReturnSingle, Fail) and goes on from its return.  From
\* then on `document` is its local document, `materials` the registry it
\* builds (the source reuses the name) and `headers` what the iterator over
\* document.headers, filtered on the key COLOUR, still holds.

ColourHeaders(hs) == SelectSeq(hs, LAMBDA h : h.key = K_COLOUR)

\* parse_single_document(..).await? failed (parser.rs 652)
ColourDocumentError ==
    /\ pc = "failed"
    /\ result' = [ok |-> FALSE,
                  err |-> [kind |-> "DocumentParseError", tok |-> <<>>, inner |-> result.err]]
    /\ pc' = "colour_failed"
    /\ UNCHANGED <<accumulators, next, input, count, document, pending, subparts,
                   callVars, fnVars, rendererVars>>

\* parse_single_document returned the document (parser.rs 652-655)
ColourBegin ==
    /\ pc = "done"
    /\ document' = Some(result.val)
    /\ materials' = EmptyMap
    /\ headers' = ColourHeaders(result.val.headers)
    /\ result' = None
    /\ pc' = "colour"
    /\ UNCHANGED <<name, author, description, bfc, commands, next, input, count,
                   pending, subparts, multipart, docStart, calls, pool, fnVars, rendererVars>>

\* Mutant of ColourInsert: a code that is in the registry keeps its material.
ColourInsert_KeepFirst ==
    /\ pc = "colour"
    /\ headers # <<>>
    /\ \E m \in {MaterialOfHeader(Head(headers).value)} :
         /\ m.ok
         /\ materials' = IF m.val.code \in DOMAIN materials THEN materials
                         ELSE Insert(materials, m.val.code, m.val)
    /\ headers' = Tail(headers)
    /\ UNCHANGED <<pc, name, author, description, bfc, commands, next, input, count,
                   document, pending, subparts, result, multipart, docStart, calls,
                   pool, fnVars, rendererVars>>

\* One COLOUR header parsed and inserted (parser.rs 655-744)
ColourInsert ==
    /\ pc = "colour"
    /\ headers # <<>>
    /\ \E m \in {MaterialOfHeader(Head(headers).value)} :
         /\ m.ok
         /\ materials' = Insert(materials, m.val.code, m.val)
    /\ headers' = Tail(headers)
    /\ UNCHANGED <<pc, name, author, description, bfc, commands, next, input, count,
                   document, pending, subparts, result, multipart, docStart, calls,
                   pool, fnVars, rendererVars>>

\* One COLOUR header fails to parse: the error is returned (parser.rs 661-729)
ColourFail ==
    /\ pc = "colour"
    /\ headers # <<>>
    /\ \E m \in {MaterialOfHeader(Head(headers).value)} :
         /\ ~m.ok
         /\ result' = [ok |-> FALSE, err |-> m.err]
    /\ pc' = "colour_failed"
    /\ UNCHANGED <<accumulators, next, input, count, document, pending, subparts,
                   callVars, fnVars, rendererVars>>

\* The loop is over: Ok(materials) (parser.rs 746)
ColourReturn ==
    /\ pc = "colour"
    /\ headers = <<>>
    /\ result' = Ok(materials)
    /\ pc' = "colour_done"
    /\ UNCHANGED <<accumulators, next, input, count, document, pending, subparts,
                   callVars, fnVars, rendererVars>>

InitColour ==
    /\ pc = "start"
    /\ multipart = FALSE
    /\ materials = EmptyMap
    /\ input = <<>>
    /\ count = 0
    /\ name = <<>>
    /\ author = <<>>
    /\ description = <<>>
    /\ bfc = NotApplicable
    /\ commands = <<>>
    /\ headers = <<>>
    /\ next = None
    /\ document = None
    /\ pending = None
    /\ subparts = EmptyMap
    /\ result = None
    /\ docStart = 0
    /\ calls = 0
    /\ pool = PoolColour
    /\ fn_input = None
    /\ fn_output = None
    /\ display_list = EmptyMap

NextColour ==
    \/ CallSingle
    \/ ReadIoError
    \/ ReadError
    \/ ReadMeta
    \/ ReadHeader
    \/ EndOfInput
    \/ ReturnSingle
    \/ ColourDocumentError
    \/ ColourBegin
    \/ ColourInsert
    \/ ColourFail
    \/ ColourReturn

SpecColour == InitColour /\ [][NextColour]_vars

-----------------------------------------------------------------------------
(* parse_line_0 as a function of its text *)

W_Help == <<"!", "H", "E", "L", "P">>
W_Bang == <<"!">>
W_Slashes == <<"/", "/">>
W_X == <<"x">>

\* The texts parse_line_0 is applied to: up to MaxWords words, the first
\* of any kind and the others from the BFC vocabulary, separated by sep,
\* between a leading and a trailing run of white space.
FirstWords ==
    {W_Help, W_Bang, W_Slashes, W_X, K_BFC, K_Name, K_Author, K_FILE, K_STEP,
     K_WRITE, K_PRINT, K_CLEAR, K_PAUSE, K_SAVE}

RestWords ==
    {K_CERTIFY, K_NOCERTIFY, K_CW, K_CCW, K_CLIP, K_NOCLIP, K_INVERTNEXT, W_X}

Leads == {<<>>, <<" ">>}
Seps == {<<" ">>, <<"\t", " ">>}
Trails == {<<>>, <<" ">>, <<"\f">>}

RestSeqs(n) == UNION {[1..k -> RestWords] : k \in 0..n}

WordSeqs ==
    {<<>>} \cup {<<f>> \o r : f \in FirstWords \cup RestWords, r \in RestSeqs(MaxWords - 1)}

Line0Inputs ==
    {[lead |-> l, words |-> w, sep |-> p, trail |-> t] :
        l \in Leads, w \in WordSeqs, p \in Seps, t \in Trails}

RECURSIVE Join(_, _)
Join(ws, sep) ==
    IF ws = <<>> THEN <<>>
    ELSE IF Len(ws) = 1 THEN ws[1]
    ELSE ws[1] \o sep \o Join(Tail(ws), sep)

Render(i) == i.lead \o Join(i.words, i.sep) \o i.trail

\* parse_line_0(&mut input.chars())
ApplyParseLine0 ==
    /\ pc = "fn"
    /\ fn_output' = parse_line_0(Render(fn_input))
    /\ pc' = "fn_done"
    /\ UNCHANGED <<parserVars, rendererVars, fn_input>>

InitLine0 ==
    /\ pc = "fn"
    /\ fn_input \in Line0Inputs
    /\ fn_output = None
    /\ display_list = EmptyMap
    /\ multipart = FALSE
    /\ materials = Registry0
    /\ input = <<>>
    /\ count = 0
    /\ name = <<>>
    /\ author = <<>>
    /\ description = <<>>
    /\ bfc = NotApplicable
    /\ commands = <<>>
    /\ headers = <<>>
    /\ next = None
    /\ document = None
    /\ pending = None
    /\ subparts = EmptyMap
    /\ result = None
    /\ docStart = 0
    /\ calls = 0
    /\ pool = {}

NextLine0 == ApplyParseLine0

SpecLine0 == InitLine0 /\ [][NextLine0]_vars

-----------------------------------------------------------------------------
(* next_token_rgb as a function of the text left in the iterator *)

\* The parser's variables in a specification that does not run the parser.
ParserIdle ==
    /\ multipart = FALSE
    /\ materials = Registry0
    /\ input = <<>>
    /\ count = 0
    /\ name = <<>>
    /\ author = <<>>
    /\ description = <<>>
    /\ bfc = NotApplicable
    /\ commands = <<>>
    /\ headers = <<>>
    /\ next = None
    /\ document = None
    /\ pending = None
    /\ subparts = EmptyMap
    /\ result = None
    /\ docStart = 0
    /\ calls = 0
    /\ pool = {}

\* The texts next_token_rgb is applied to: up to MaxRgbLen characters.
RgbChars == {"#", "0", "F", "x", "+"}

RgbInputs == UNION {[1..k -> RgbChars] : k \in 0..MaxRgbLen}

\* next_token_rgb(&mut input.chars())
ApplyNextTokenRgb ==
    /\ pc = "fn"
    /\ fn_output' = next_token_rgb(fn_input)
    /\ pc' = "fn_done"
    /\ UNCHANGED <<parserVars, rendererVars, fn_input>>

InitRgb ==
    /\ pc = "fn"
    /\ fn_input \in RgbInputs
    /\ fn_output = None
    /\ display_list = EmptyMap
    /\ ParserIdle

NextRgb == ApplyNextTokenRgb

SpecRgb == InitRgb /\ [][NextRgb]_vars

-----------------------------------------------------------------------------
(* The COLOUR header grammar as a function of the header's value *)

W_Red == <<"R", "e", "d">>
W_4 == <<"4">>
W_0x10 == <<"0", "x", "1", "0">>
W_ValueRgb == <<"#", "F", "F", "0", "0", "0", "0">>
W_EdgeRgb == <<"#", "7", "F", "0", "0", "0", "0">>

\* Trailing attributes, each as the words it is written with; the RGB
\* triplet of a MATERIAL clause is one space after its VALUE.
A_Alpha == <<K_ALPHA, <<"1", "2", "8">>>>
A_Luminance == <<K_LUMINANCE, <<"5">>>>
A_Chrome == <<K_CHROME>>
A_Rubber == <<K_RUBBER>>
A_Glitter == <<K_MATERIAL, K_GLITTER, Phrase(K_VALUE, <<"#", "0", "0", "0", "0", "F", "F">>), K_FRACTION, <<"1">>, K_SIZE, <<"2">>>>
A_Speckle == <<K_MATERIAL, K_SPECKLE, Phrase(K_VALUE, <<"#", "0", "0", "F", "F", "0", "0">>), K_MINSIZE, <<"1">>>>

Attributes == {A_Alpha, A_Luminance, A_Chrome, A_Rubber, A_Glitter, A_Speckle}

\* Sequences of up to MaxAttrs attributes, none twice.
AttributeSeqs ==
    {q \in UNION {[1..k -> Attributes] : k \in 0..MaxAttrs} :
        \A i, j \in 1..Len(q) : i # j => q[i] # q[j]}

\* The words at the places of CODE, VALUE and EDGE.
CodeWords == {K_CODE, K_VALUE, W_X}
ValueWords == {K_VALUE, K_EDGE, W_X}
EdgeWords == {K_EDGE, K_CODE, W_X}

HeaderInputs ==
    {[code |-> c, words |-> <<w1, w2, w3>>, attrs |-> q, sep |-> p] :
        c \in {W_4, W_0x10}, w1 \in CodeWords, w2 \in ValueWords, w3 \in EdgeWords,
        q \in AttributeSeqs, p \in Seps}

RECURSIVE Flatten(_)
Flatten(q) == IF q = <<>> THEN <<>> ELSE Head(q) \o Flatten(Tail(q))

\* The header value: the fixed fields one space apart, then every word of
\* the attributes after the separator sep.
RenderHeader(i) ==
    Join(<<W_Red, i.words[1], i.code, i.words[2], W_ValueRgb, i.words[3], W_EdgeRgb>>, SP)
      \o (IF i.attrs = <<>> THEN <<>> ELSE i.sep \o Join(Flatten(i.attrs), i.sep))

\* The loop body of parse_color_definition on one header value
ApplyMaterialOfHeader ==
    /\ pc = "fn"
    /\ fn_output' = MaterialOfHeader(RenderHeader(fn_input))
    /\ pc' = "fn_done"
    /\ UNCHANGED <<parserVars, rendererVars, fn_input>>

InitHeader ==
    /\ pc = "fn"
    /\ fn_input \in HeaderInputs
    /\ fn_output = None
    /\ display_list = EmptyMap
    /\ ParserIdle

NextHeader == ApplyMaterialOfHeader

SpecHeader == InitHeader /\ [][NextHeader]_vars

-----------------------------------------------------------------------------
(* ALPHA and LUMINANCE arguments in a COLOUR header *)

\* The decimal and the hexadecimal writing of a u32.
DigitChar(d) ==
    <<"0", "1", "2", "3", "4", "5", "6", "7", "8", "9",
      "A", "B", "C", "D", "E", "F">>[d + 1]

RECURSIVE Decimal(_)
Decimal(n) ==
    LET m == (n[1] % 10) * Half + n[2]
        q == <<n[1] \div 10, m \div 10>>
    IN (IF q = <<0, 0>> THEN <<>> ELSE Decimal(q)) \o <<DigitChar(m % 10)>>

Hex4(h) ==
    <<DigitChar(h \div 4096), DigitChar((h \div 256) % 16),
      DigitChar((h \div 16) % 16), DigitChar(h % 16)>>

Hexadecimal(n) == <<"0", "x">> \o Hex4(n[1]) \o Hex4(n[2])

\* The headers: ALPHA or LUMINANCE with the argument n, written in decimal
\* or with 0x, among the header's own attributes or in a GLITTER or SPECKLE
\* clause.
ArgHighs == {0, 1, 255, 32768, Half - 1}
ArgLows == 0..MaxArgLow \cup {Half - 256, Half - 1}

AlphaInputs ==
    {[key |-> k, place |-> c, n |-> <<h, l>>, hex |-> x] :
        k \in {K_ALPHA, K_LUMINANCE}, c \in {K_CODE, K_GLITTER, K_SPECKLE},
        h \in ArgHighs, l \in ArgLows, x \in BOOLEAN}

RenderAlpha(i) ==
    Join(<<W_Red, K_CODE, W_4, K_VALUE, W_ValueRgb, K_EDGE, W_EdgeRgb>>
           \o (IF i.place = K_CODE THEN <<>>
               ELSE <<K_MATERIAL, i.place, Phrase(K_VALUE, W_EdgeRgb)>>)
           \o <<i.key, IF i.hex THEN Hexadecimal(i.n) ELSE Decimal(i.n)>>,
         SP)

\* The loop body of parse_color_definition on one such header
ApplyAlphaHeader ==
    /\ pc = "fn"
    /\ fn_output' = MaterialOfHeader(RenderAlpha(fn_input))
    /\ pc' = "fn_done"
    /\ UNCHANGED <<parserVars, rendererVars, fn_input>>

InitAlpha ==
    /\ pc = "fn"
    /\ fn_input \in AlphaInputs
    /\ fn_output = None
    /\ display_list = EmptyMap
    /\ ParserIdle

NextAlpha == ApplyAlphaHeader

SpecAlpha == InitAlpha /\ [][NextAlpha]_vars

-----------------------------------------------------------------------------
(* parse_line_1 as a function of the text after the line type *)

W_0 == <<"0">>
W_7 == <<"7">>
W_16 == <<"1", "6">>
W_S == <<"S">>
W_ab == <<"a", " ", " ", "b">>

\* The texts parse_line_1 is applied to: a colour code, twelve numbers and
\* a name, separated by sep.
Line1Inputs ==
    {[code |-> c, nums |-> n, name |-> m, sep |-> p] :
        c \in {W_4, W_16}, n \in [1..12 -> {W_0, W_7}], m \in {W_S, W_ab}, p \in Seps}

RenderLine1(i) == SP \o Join(<<i.code>> \o i.nums \o <<i.name>>, i.sep)

\* parse_line_1(materials, &mut input.chars())
ApplyParseLine1 ==
    /\ pc = "fn"
    /\ fn_output' = parse_line_1(Registry0, RenderLine1(fn_input))
    /\ pc' = "fn_done"
    /\ UNCHANGED <<parserVars, rendererVars, fn_input>>

InitLine1 ==
    /\ pc = "fn"
    /\ fn_input \in Line1Inputs
    /\ fn_output = None
    /\ display_list = EmptyMap
    /\ ParserIdle

NextLine1 == ApplyParseLine1

SpecLine1 == InitLine1 /\ [][NextLine1]_vars

-----------------------------------------------------------------------------
(* next_token as a function of the text left in the iterator *)

\* The texts next_token is applied to: up to MaxTextLen characters, in
\* either mode.
TextChars == {"a", " ", "\t", "\n", "\f"}

TokenInputs ==
    {[text |-> t, glob |-> g] :
        t \in UNION {[1..k -> TextChars] : k \in 0..MaxTextLen}, g \in BOOLEAN}

\* next_token(&mut input.chars(), glob_remaining)
ApplyNextToken ==
    /\ pc = "fn"
    /\ fn_output' = next_token(fn_input.text, fn_input.glob)
    /\ pc' = "fn_done"
    /\ UNCHANGED <<parserVars, rendererVars, fn_input>>

InitToken ==
    /\ pc = "fn"
    /\ fn_input \in TokenInputs
    /\ fn_output = None
    /\ display_list = EmptyMap
    /\ ParserIdle

NextToken == ApplyNextToken

SpecToken == InitToken /\ [][NextToken]_vars

-----------------------------------------------------------------------------
(* The display list of the renderer *)

\* Material::is_translucent: the colour is not fully opaque.
is_translucent(material) == material.color.a < 255

\* Vector4::from(&Rgba): the four components over 255.
Vector4_from(c) == [v |-> <<c.r, c.g, c.b, c.a>>, over |-> 255]

\* InstanceBuffer::new (display_list.rs 49-66), without the GL handles.
InstanceBuffer_new ==
    [count |-> 0, model_view_matrices |-> <<>>, materials |-> <<>>,
     colors |-> <<>>, edge_colors |-> <<>>, modified |-> FALSE]

\* DisplayItem::new
DisplayItem_new(alias) ==
    [part |-> alias, opaque |-> InstanceBuffer_new, translucent |-> InstanceBuffer_new]

\* izip!(a, b): pairs up to the end of the shorter slice.
Zip(a, b) ==
    [i \in 1..(IF Len(a) < Len(b) THEN Len(a) ELSE Len(b)) |-> <<a[i], b[i]>>]

\* The buffer update_data writes (display_list.rs 206-215, 223-228); zipped
\* is the sequence the for loop runs over.
UpdatedBuffer(zipped, model_view_matrices) ==
    [count |-> Len(model_view_matrices),
     model_view_matrices |-> [i \in DOMAIN zipped |-> zipped[i][1]],
     materials |-> [i \in DOMAIN zipped |-> zipped[i][2]],
     colors |-> [i \in DOMAIN zipped |-> Vector4_from(zipped[i][2].color)],
     edge_colors |-> [i \in DOMAIN zipped |-> Vector4_from(zipped[i][2].edge)],
     modified |-> TRUE]

\* DisplayItem::update_data
DisplayItem_update_data(item, opaque, model_view_matrices, mats) ==
    IF opaque
      THEN [item EXCEPT !.opaque =
              Only({UpdatedBuffer(z, model_view_matrices) :
                      z \in {Zip(model_view_matrices, mats)}})]
      ELSE [item EXCEPT !.translucent =
              Only({UpdatedBuffer(z, model_view_matrices) :
                      z \in {Zip(model_view_matrices, mats)}})]

\* The pushes of DisplayItem::add on the buffer it chose (238-243).
PushedBuffer(buffer, matrix, material) ==
    [count |-> buffer.count + 1,
     model_view_matrices |-> Append(buffer.model_view_matrices, matrix),
     materials |-> Append(buffer.materials, material),
     colors |-> Append(buffer.colors, Vector4_from(material.color)),
     edge_colors |-> Append(buffer.edge_colors, Vector4_from(material.edge)),
     modified |-> TRUE]

\* DisplayItem::add
DisplayItem_add(item, matrix, material) ==
    IF is_translucent(material)
      THEN [item EXCEPT !.translucent = PushedBuffer(item.translucent, matrix, material)]
      ELSE [item EXCEPT !.opaque = PushedBuffer(item.opaque, matrix, material)]

\* DisplayList::count over the items of m.
RECURSIVE CountOver(_, _)
CountOver(m, keys) ==
    IF keys = {} THEN 0
    ELSE Only({m[k].opaque.count + m[k].translucent.count + CountOver(m, keys \ {k}) :
                 k \in {CHOOSE x \in keys : TRUE}})

DisplayList_count(m) == CountOver(m, DOMAIN m)

\* The entry of the map for name, made when it is missing
\* (entry(..).or_insert_with(..)).
EntryOrNew(m, alias) == IF alias \in DOMAIN m THEN m[alias] ELSE DisplayItem_new(alias)

\* The arguments of the calls: two parts, one matrix, an opaque and a
\* translucent material.
DisplayParts == {<<"a">>, <<"b">>}
DisplayMatrices == {Matrix4_new(<<1, 0, 0, 0, 0, 1, 0, 0, 0, 0, 1, 0, 0, 0, 0, 1>>)}
DisplayMaterials ==
    {[code |-> U32(4), color |-> Rgba_new(<<255, 0, 0>>, 255), edge |-> Rgba_new(<<0, 0, 0>>, 255)],
     [code |-> U32(47), color |-> Rgba_new(<<255, 255, 255>>, 128), edge |-> Rgba_new(<<0, 0, 0>>, 255)]}

SlicesOf(S) == UNION {[1..k -> S] : k \in 0..MaxInstances}

RendererRunning ==
    /\ pc = "display"
    /\ UNCHANGED <<pc, parserVars, fnVars>>

\* DisplayList::add (display_list.rs 329-334)
DisplayListAdd ==
    /\ RendererRunning
    /\ DisplayList_count(display_list) < MaxInstances
    /\ \E alias \in DisplayParts, matrix \in DisplayMatrices, material \in DisplayMaterials :
         display_list' =
           Insert(display_list, alias,
                  DisplayItem_add(EntryOrNew(display_list, alias), matrix, material))

\* DisplayItem::update_data on an item of the list
DisplayItemUpdateData ==
    /\ RendererRunning
    /\ \E alias \in DOMAIN display_list, opaque \in BOOLEAN,
          model_view_matrices \in SlicesOf(DisplayMatrices),
          mats \in SlicesOf(DisplayMaterials) :
         /\ display_list' =
              [display_list EXCEPT
                 ![alias] = DisplayItem_update_data(@, opaque, model_view_matrices, mats)]
         /\ DisplayList_count(display_list') <= MaxInstances

\* DisplayList::clear (display_list.rs 336-338)
DisplayListClear ==
    /\ RendererRunning
    /\ display_list' = EmptyMap

InitDisplay ==
    /\ pc = "display"
    /\ ParserIdle
    /\ fn_input = None
    /\ fn_output = None
    /\ display_list = EmptyMap

NextDisplay ==
    \/ DisplayListAdd
    \/ DisplayItemUpdateData
    \/ DisplayListClear

SpecDisplay == InitDisplay /\ [][NextDisplay]_vars

-----------------------------------------------------------------------------
(* What the lines of the pools are, read off their text *)

Last(q) == q[Len(q)]

\* `0 FILE <name>` lines and the name each carries.
FileLines == {L_FileA, L_FileB}
FileNameOf(l) == IF l = L_FileA THEN <<"a">> ELSE <<"B">>

\* Plain comment lines and the text each carries.
CommentLines == {L_Description, L_Comment, L_EmptyComment}
CommentTextOf(l) ==
    CASE l = L_Description -> <<"d">>
      [] l = L_Comment -> <<"c", " ", " ", "x">>
      [] l = L_EmptyComment -> <<>>

\* Lines of type 1-5 and meta directives other than comments.
GeometryLines == {L_PartRef, L_Line}
DirectiveLines == {L_Step, L_BfcCw}
DirectiveOf(l) == IF l = L_Step THEN MetaStep ELSE MetaBfc(BfcWinding("Cw"))

\* Name:, Author: and certification lines and the value each carries.
NameLines == {L_Name, L_NameNone}
NameOf(l) == IF l = L_Name THEN <<"n">> ELSE <<>>
AuthorLines == {L_Author, L_AuthorB}
AuthorOf(l) == IF l = L_Author THEN <<"u">> ELSE <<"w", " ", "w">>
CertificationLines == {L_Certify, L_NoCertify}
CertificationOf(l) == IF l = L_Certify THEN Certify("Ccw") ELSE NoCertify

\* Lines that cannot be parsed.
ErrorLines == {L_FileNoName, L_Unknown, L_LineShort}

\* The lines read by the running parse_inner invocation.
Segment == SubSeq(input, docStart + 1, Len(input))

InDocument == pc \in {"read", "return"}

\* The text of the first comment line of a line sequence, and of the first
\* one whose text is not empty (empty when there is none).
RECURSIVE FirstComment(_)
FirstComment(ls) ==
    IF ls = <<>> THEN <<>>
    ELSE IF Head(ls) \in CommentLines THEN CommentTextOf(Head(ls))
    ELSE FirstComment(Tail(ls))

RECURSIVE FirstNonEmptyComment(_)
FirstNonEmptyComment(ls) ==
    IF ls = <<>> THEN <<>>
    ELSE IF Head(ls) \in CommentLines /\ CommentTextOf(Head(ls)) # <<>>
      THEN CommentTextOf(Head(ls))
    ELSE FirstNonEmptyComment(Tail(ls))

\* The commands a line sequence stands for, in the order of the lines;
\* described tells whether the description was found before ls.
RECURSIVE CommandsOf(_, _)
CommandsOf(ls, described) ==
    IF ls = <<>> THEN <<>>
    ELSE LET l == Head(ls) IN
      IF l \in GeometryLines
        THEN <<Decode(Registry0, l).val>> \o CommandsOf(Tail(ls), described)
      ELSE IF l \in DirectiveLines
        THEN <<CommandMeta(DirectiveOf(l))>> \o CommandsOf(Tail(ls), described)
      ELSE IF l \in CommentLines
        THEN IF described
               THEN <<CommandMeta(MetaComment(CommentTextOf(l)))>>
                      \o CommandsOf(Tail(ls), TRUE)
               ELSE CommandsOf(Tail(ls), CommentTextOf(l) # <<>>)
      ELSE CommandsOf(Tail(ls), described)

-----------------------------------------------------------------------------
(* Claims *)

\* C1: in single-document mode a `0 FILE <name>` line that is reached makes
\* the parse fail with MultipartDocument at the 1-based number of that line,
\* whatever came before it, and no Document is returned over such a line.
C1_SingleRejectsFile ==
    /\ (~multipart /\ pc # "start" /\ input # <<>> /\ Last(input) \in FileLines)
         => /\ pc = "failed"
            /\ result = [ok |-> FALSE,
                         err |-> [line |-> Len(input), error |-> MultipartDocumentError]]
    /\ (~multipart /\ pc = "done")
         => /\ result.ok
            /\ \A i \in 1..Len(input) : input[i] \notin FileLines

C1_Witness ==
    /\ pc = "failed" /\ ~multipart
    /\ Len(input) = 3
    /\ input[1] = L_Description
    /\ Last(input) = L_FileB
    /\ result.err.error.kind = "MultipartDocument"

\* C2: in multipart mode a `0 FILE <name>` line met with a non-empty
\* description ends the running document at once, no later line being
\* taken; every later parse_inner invocation starts right after the
\* boundary that named it, and on its return the document it built is put
\* in subparts under that name (normalised), the next invocation starting
\* only then.
C2_BoundaryState ==
    /\ (multipart /\ pc = "read" /\ Segment # <<>> /\ Last(input) \in FileLines)
         => description = <<>>
    /\ (multipart /\ pc = "return" /\ next.some)
         => /\ Last(input) \in FileLines
            /\ next.val = FileNameOf(Last(input))
            /\ FirstNonEmptyComment(SubSeq(Segment, 1, Len(Segment) - 1)) # <<>>
            /\ count = Len(input)
    /\ (multipart /\ InDocument /\ calls >= 2)
         => /\ pending.some
            /\ docStart >= 1
            /\ input[docStart] \in FileLines
            /\ pending.val = FileNameOf(input[docStart])

C2_StoreStep ==
    (pc = "return" /\ multipart /\ calls >= 2)
       => /\ subparts' = Insert(subparts,
                                IF input[docStart] = L_FileA THEN <<"a">> ELSE <<"b">>,
                                CurrentDocument)
          /\ input' = input
          /\ pending' = next
          /\ (next.some => pc' = "read" /\ docStart' = Len(input) /\ calls' = calls + 1)
          /\ (~next.some => pc' = "done" /\ result'.ok /\ result'.val.subparts = subparts')

C2_MultipartBoundary == [](C2_BoundaryState) /\ [][C2_StoreStep]_vars

C2_Witness ==
    /\ pc = "done" /\ multipart
    /\ input = <<L_Description, L_FileA, L_Comment, L_FileB>>
    /\ DOMAIN result.val.subparts = {<<"a">>, <<"b">>}
    /\ result.val.subparts[<<"a">>].description = <<"c", " ", " ", "x">>
    /\ result.val.subparts[<<"b">>].description = <<>>

\* C3: in multipart mode a `0 FILE <name>` line met with an empty
\* description is dropped: the parse goes on with the same document, no
\* pending name, and name, author, description, certification, headers and
\* commands as they were.
C3_DiscardStep ==
    (pc = "read" /\ multipart /\ description = <<>>
       /\ Len(input') = Len(input) + 1 /\ Last(input') \in FileLines)
       => /\ pc' = "read"
          /\ next' = None
          /\ calls' = calls
          /\ UNCHANGED <<name, author, description, bfc, headers, commands>>

C3_FileDiscarded == [][C3_DiscardStep]_vars

C3_Witness ==
    /\ pc = "read" /\ multipart
    /\ Len(Segment) = 4
    /\ Last(input) \in FileLines
    /\ description = <<>>
    /\ name # <<>> /\ headers # <<>> /\ commands # <<>>

\* C4: a parse that fails returns no Document, and its error carries the
\* 1-based number of the offending line among all raw lines read so far,
\* blank lines and the lines of earlier sub-documents included; the line
\* that could not be read or parsed is the last one taken, and nothing
\* happens after the failure.
C4_FailureState ==
    /\ pc = "failed"
         => /\ ~result.ok
            /\ result.err.line = Len(input)
            /\ \/ Last(input) = IoFailure
               \/ Last(input) \in ErrorLines
               \/ ~multipart /\ Last(input) \in FileLines
    /\ (input # <<>> /\ Last(input) \in ErrorLines \cup {IoFailure})
         => pc = "failed"
    /\ pc = "done"
         => /\ result.ok
            /\ \A i \in 1..Len(input) : input[i] \notin ErrorLines \cup {IoFailure}

C4_FirstErrorAborts == [](C4_FailureState) /\ [][pc # "failed"]_vars

C4_Witness ==
    /\ pc = "failed" /\ multipart
    /\ calls = 2
    /\ input = <<L_Description, L_FileA, L_Blank, L_Unknown>>
    /\ result.err.line = 4
    /\ result.err.error.kind = "UnexpectedCommand"

\* The text parse_line_0 was applied to, as its words.
FnWords == fn_input.words
FnRest == Join(Tail(FnWords), fn_input.sep)

\* C5: for a type-0 text whose first token begins with `!`, parse_line_0
\* returns a Header whose key is the rest of that token and whose value is
\* what follows it, trimmed; the value is empty when nothing follows
\* (`!HELP` gives key HELP and an empty value).
C5_HeaderKeyValue ==
    (pc = "fn_done" /\ FnWords # <<>> /\ Head(FnWords[1]) = "!")
       => fn_output = Ok(Line0Header(Tail(FnWords[1]), FnRest))

\* The documented value of each BFC phrase, None for any other phrase.
BfcDocumented(ws) ==
    CASE ws = <<K_NOCERTIFY>> -> Some(Line0BfcCertification(NoCertify))
      [] ws = <<K_CERTIFY>> -> Some(Line0BfcCertification(Certify("Ccw")))
      [] ws = <<K_CERTIFY, K_CW>> -> Some(Line0BfcCertification(Certify("Cw")))
      [] ws = <<K_CERTIFY, K_CCW>> -> Some(Line0BfcCertification(Certify("Ccw")))
      [] ws = <<K_CW>> -> Some(Line0Meta(MetaBfc(BfcWinding("Cw"))))
      [] ws = <<K_CCW>> -> Some(Line0Meta(MetaBfc(BfcWinding("Ccw"))))
      [] ws = <<K_CLIP>> -> Some(Line0Meta(MetaBfc(BfcClip(None))))
      [] ws = <<K_CLIP, K_CW>> -> Some(Line0Meta(MetaBfc(BfcClip(Some("Cw")))))
      [] ws = <<K_CLIP, K_CCW>> -> Some(Line0Meta(MetaBfc(BfcClip(Some("Ccw")))))
      [] ws = <<K_CW, K_CLIP>> -> Some(Line0Meta(MetaBfc(BfcClip(Some("Cw")))))
      [] ws = <<K_CCW, K_CLIP>> -> Some(Line0Meta(MetaBfc(BfcClip(Some("Ccw")))))
      [] ws = <<K_NOCLIP>> -> Some(Line0Meta(MetaBfc(BfcNoClip)))
      [] ws = <<K_INVERTNEXT>> -> Some(Line0Meta(MetaBfc(BfcInvertNext)))
      [] OTHER -> None

\* C6: `BFC <phrase>`, the words of the phrase one space apart, gives the
\* documented value of the phrase, `CW CLIP` and `CCW CLIP` standing for
\* `CLIP CW` and `CLIP CCW`; any other phrase is InvalidBfcStatement.
C6_BfcPhrases ==
    (pc = "fn_done" /\ Len(FnWords) >= 2 /\ FnWords[1] = K_BFC /\ fn_input.sep = <<" ">>)
       => LET documented == BfcDocumented(Tail(FnWords)) IN
          IF documented.some
            THEN fn_output = Ok(documented.val)
            ELSE ~fn_output.ok /\ fn_output.err.kind = "InvalidBfcStatement"

\* C7: a comment text that starts with the `//` marker gives Comment of
\* what follows the marker and the white space after it; a text whose first
\* word is the plain word x gives Comment of the whole text.
C7_CommentMarker ==
    /\ (pc = "fn_done" /\ FnWords # <<>> /\ FnWords[1] = W_Slashes)
         => fn_output = Ok(Line0Meta(MetaComment(FnRest)))
    /\ (pc = "fn_done" /\ FnWords # <<>> /\ FnWords[1] = W_X)
         => fn_output = Ok(Line0Meta(MetaComment(Join(FnWords, fn_input.sep))))

Directives ==
    {K_BFC, K_Name, K_Author, K_FILE, K_STEP, K_WRITE, K_PRINT, K_CLEAR,
     K_PAUSE, K_SAVE}

C9_FirstCommentIsDescription ==
    InDocument => description = FirstComment(Segment)

\* C9 as amended: the description of the running document is the text of
\* the first comment line with a non-empty text; once it is not empty no
\* line of the same document changes it, and each comment line read from
\* then on is appended to commands.
C9_DescriptionStep ==
    (pc = "read" /\ calls' = calls /\ description # <<>>)
       => /\ description' = description
          /\ (Len(input') = Len(input) + 1 /\ Last(input') \in CommentLines)
               => commands' = Append(commands,
                                     CommandMeta(MetaComment(CommentTextOf(Last(input')))))

C9_DescriptionSetOnce ==
    /\ [](InDocument => description = FirstNonEmptyComment(Segment))
    /\ [][C9_DescriptionStep]_vars

C9_Witness ==
    /\ pc = "read"
    /\ Segment = <<L_EmptyComment, L_Description, L_Comment, L_EmptyComment>>
    /\ description = <<"d">>
    /\ Len(commands) = 2

\* C10: the commands of the running document, and of the Document a
\* single-document parse returns, are those of its geometry lines, meta
\* directives and comment lines after the description, in the order of the
\* lines; header, Name:, Author:, certification, FILE and blank lines add
\* none.
C10_CommandsInFileOrder ==
    /\ InDocument => commands = CommandsOf(Segment, FALSE)
    /\ (pc = "done" /\ ~multipart) => result.val.commands = CommandsOf(input, FALSE)

C10_Witness ==
    /\ pc = "done" /\ ~multipart
    /\ input = <<L_Line, L_Step, L_Header, L_Line>>
    /\ Len(result.val.commands) = 3
    /\ result.val.commands[1].cmd = "Line"
    /\ result.val.commands[2] = CommandMeta(MetaStep)
    /\ result.val.commands[3].cmd = "Line"

\* The last line of ls that is in the set S, None when there is none.
RECURSIVE LastIn(_, _)
LastIn(ls, S) ==
    IF ls = <<>> THEN None
    ELSE IF Last(ls) \in S THEN Some(Last(ls))
    ELSE LastIn(SubSeq(ls, 1, Len(ls) - 1), S)

LastName(ls) ==
    Only({IF l.some THEN NameOf(l.val) ELSE <<>> : l \in {LastIn(ls, NameLines)}})
LastAuthor(ls) ==
    Only({IF l.some THEN AuthorOf(l.val) ELSE <<>> : l \in {LastIn(ls, AuthorLines)}})
LastCertification(ls) ==
    Only({IF l.some THEN CertificationOf(l.val) ELSE NotApplicable :
            l \in {LastIn(ls, CertificationLines)}})

\* C11: name, author and certification of the running document, and of the
\* Document a single-document parse returns, are the values of the last
\* Name:, Author: and BFC (NO)CERTIFY line read for it, and the empty
\* string, the empty string and NotApplicable when there is none; a
\* `Name:` line without a name writes the empty string, and a BFC line that
\* is no certification leaves the certification as it is.
C11_LastWriteWins ==
    /\ InDocument => /\ name = LastName(Segment)
                     /\ author = LastAuthor(Segment)
                     /\ bfc = LastCertification(Segment)
    /\ (pc = "done" /\ ~multipart)
         => /\ result.val.name = LastName(input)
            /\ result.val.author = LastAuthor(input)
            /\ result.val.bfc = LastCertification(input)

C11_Witness ==
    /\ pc = "done" /\ ~multipart
    /\ input = <<L_Name, L_Certify, L_NoCertify, L_NameNone>>
    /\ result.val.name = <<>>
    /\ result.val.bfc = NoCertify

\* C12: a parse that fails never reports EndOfLine: a line that ends before
\* a mandatory field (`0 FILE` without a name, a type-2 line with five of
\* its six numbers) fails with the failure kind of that read.
C12_EndOfLineNeverReturned ==
    pc = "failed" => result.err.error.kind # "EndOfLine"

\* The byte two hexadecimal digits denote.
HexByte(hi, lo) == 16 * DigitVal(hi) + DigitVal(lo)

\* C16: the RGB reader fails with EndOfLine on an empty text, with
\* InvalidToken of the first character when that is not `#`, with EndOfLine
\* when fewer than six characters follow the `#`, and with an error when
\* one of the six is no hexadecimal digit; otherwise it returns the three
\* bytes the six digits denote and has consumed exactly the `#` and them.
C16_RgbReader ==
    pc = "fn_done" =>
      IF fn_input = <<>>
        THEN ~fn_output.ok /\ fn_output.err.kind = "EndOfLine"
      ELSE IF Head(fn_input) # "#"
        THEN ~fn_output.ok /\ fn_output.err = [kind |-> "InvalidToken", tok |-> <<Head(fn_input)>>]
      ELSE IF Len(fn_input) < 7
        THEN ~fn_output.ok /\ fn_output.err.kind = "EndOfLine"
      ELSE IF \E i \in 2..7 : ~IsDigit(fn_input[i], 16)
        THEN ~fn_output.ok
      ELSE fn_output = OkRest(<<HexByte(fn_input[2], fn_input[3]),
                               HexByte(fn_input[4], fn_input[5]),
                               HexByte(fn_input[6], fn_input[7])>>,
                             Drop(fn_input, 7))

\* The header under test has CODE, VALUE and EDGE where they belong.
HeaderWellFormed == fn_input.words = <<K_CODE, K_VALUE, K_EDGE>>

CodeOf(c) == IF c = W_4 THEN U32(4) ELSE U32(16)

FinishAttributes == {A_Chrome, A_Rubber, A_Glitter, A_Speckle}

\* The finish an attribute stands for.
FinishOf(a) ==
    CASE a = A_Chrome -> Chrome
      [] a = A_Rubber -> Rubber
      [] a = A_Glitter ->
           Custom([custom |-> "Glitter", value |-> [r |-> 0, g |-> 0, b |-> 255, a |-> 255],
                   luminance |-> 0, fraction |-> 1, vfraction |-> 0, size |-> U32(2),
                   minsize |-> 0, maxsize |-> 0])
      [] a = A_Speckle ->
           Custom([custom |-> "Speckle", value |-> [r |-> 0, g |-> 255, b |-> 0, a |-> 255],
                   luminance |-> 0, fraction |-> 0, size |-> U32(0),
                   minsize |-> 1, maxsize |-> 0])

\* The Material a well-formed header with the attribute set S stands for,
\* S holding at most one finish attribute.
MaterialFor(c, S) ==
    [code |-> CodeOf(c), name |-> W_Red,
     color |-> [r |-> 255, g |-> 0, b |-> 0, a |-> IF A_Alpha \in S THEN 128 ELSE 255],
     edge |-> [r |-> 127, g |-> 0, b |-> 0, a |-> 255],
     luminance |-> IF A_Luminance \in S THEN 5 ELSE 0,
     finish |-> IF S \cap FinishAttributes = {} THEN Plastic
                ELSE FinishOf(CHOOSE a \in S \cap FinishAttributes : TRUE)]

AttrSet(q) == {q[i] : i \in 1..Len(q)}

\* The attributes of S in one fixed order: ALPHA, LUMINANCE, the flags, the
\* MATERIAL clauses.
RECURSIVE InOrder(_, _)
InOrder(order, S) ==
    IF order = <<>> THEN <<>>
    ELSE (IF Head(order) \in S THEN <<Head(order)>> ELSE <<>>) \o InOrder(Tail(order), S)

Canonical(q) ==
    InOrder(<<A_Alpha, A_Luminance, A_Chrome, A_Rubber, A_Glitter, A_Speckle>>, AttrSet(q))

\* C14 as stated: a well-formed header parses successfully, and to the
\* Material that the same attributes written in any other order give.
C14_AnyOrder ==
    (pc = "fn_done" /\ HeaderWellFormed)
       => /\ fn_output.ok
          /\ fn_output = MaterialOfHeader(RenderHeader([fn_input EXCEPT !.attrs = Canonical(@)]))

\* C14 as amended: when the attributes hold at most one finish (a flag or a
\* MATERIAL clause) and the MATERIAL clause, if there is one, is written
\* last (every RGB triplet one space after its VALUE or EDGE), the header
\* parses successfully and the Material depends on the set of attributes
\* only: ALPHA and LUMINANCE give base alpha and
\* luminance, the finish attribute the finish, whatever their order.
C14_MaterialLast ==
    (pc = "fn_done" /\ HeaderWellFormed
       /\ Cardinality(AttrSet(fn_input.attrs) \cap FinishAttributes) <= 1
       /\ \A i \in 1..Len(fn_input.attrs) :
            fn_input.attrs[i] \in {A_Glitter, A_Speckle} => i = Len(fn_input.attrs))
       => fn_output = Ok(MaterialFor(fn_input.code, AttrSet(fn_input.attrs)))

C14_Witness ==
    /\ pc = "fn_done"
    /\ fn_input = [code |-> W_4, words |-> <<K_CODE, K_VALUE, K_EDGE>>,
                   attrs |-> <<A_Luminance, A_Alpha, A_Glitter>>, sep |-> <<"\t", " ">>]
    /\ fn_output.ok
    /\ fn_output.val.color.a = 128
    /\ fn_output.val.luminance = 5
    /\ fn_output.val.finish.material.fraction = 1

\* C15: a COLOUR header without trailing attributes, its fields one space
\* apart, gives the Material of its code and name with base colour alpha
\* 255, edge alpha 255, luminance 0 and the plain finish (Finish::Plastic);
\* with another word at the place of CODE, VALUE or EDGE it fails with
\* InvalidToken of the first such word.
C15_PlainHeader ==
    (pc = "fn_done" /\ fn_input.attrs = <<>>)
       => IF HeaderWellFormed
            THEN fn_output = Ok([code |-> CodeOf(fn_input.code), name |-> W_Red,
                                 color |-> [r |-> 255, g |-> 0, b |-> 0, a |-> 255],
                                 edge |-> [r |-> 127, g |-> 0, b |-> 0, a |-> 255],
                                 luminance |-> 0, finish |-> Plastic])
            ELSE LET i == CHOOSE k \in 1..3 :
                            /\ fn_input.words[k] # <<K_CODE, K_VALUE, K_EDGE>>[k]
                            /\ \A j \in 1..(k - 1) : fn_input.words[j] = <<K_CODE, K_VALUE, K_EDGE>>[j]
                 IN fn_output = Err("InvalidToken", fn_input.words[i])

C15_Witness ==
    /\ pc = "fn_done"
    /\ fn_input = [code |-> W_0x10, words |-> <<K_CODE, K_VALUE, K_EDGE>>,
                   attrs |-> <<>>, sep |-> <<" ">>]
    /\ fn_output.ok
    /\ fn_output.val.code = U32(16)
    /\ fn_output.val.finish = Plastic

\* COLOUR header lines of the colour pool, and the code and Material each
\* stands for.
ColourLines == {L_ColRed4, L_ColBlue4, L_ColGrey7}

ColourCodeOf(l) == IF l = L_ColGrey7 THEN U32(7) ELSE U32(4)

ColourMaterialOf(l) ==
    CASE l = L_ColRed4 ->
           [code |-> U32(4), name |-> W_Red,
            color |-> [r |-> 255, g |-> 0, b |-> 0, a |-> 255],
            edge |-> [r |-> 127, g |-> 0, b |-> 0, a |-> 255],
            luminance |-> 0, finish |-> Plastic]
      [] l = L_ColBlue4 ->
           [code |-> U32(4), name |-> <<"B">>,
            color |-> [r |-> 0, g |-> 0, b |-> 255, a |-> 128],
            edge |-> [r |-> 0, g |-> 0, b |-> 0, a |-> 255],
            luminance |-> 0, finish |-> Plastic]
      [] l = L_ColGrey7 ->
           [code |-> U32(7), name |-> <<"G">>,
            color |-> [r |-> 127, g |-> 127, b |-> 127, a |-> 255],
            edge |-> [r |-> 0, g |-> 0, b |-> 0, a |-> 255],
            luminance |-> 0, finish |-> Chrome]

\* The registry the COLOUR header lines of ls stand for: every code of
\* theirs, with the Material of the last line of that code.
RegistryOf(ls) ==
    [c \in {ColourCodeOf(ls[i]) : i \in {j \in 1..Len(ls) : ls[j] \in ColourLines}} |->
        ColourMaterialOf(
            ls[CHOOSE i \in 1..Len(ls) :
                 /\ ls[i] \in ColourLines /\ ColourCodeOf(ls[i]) = c
                 /\ \A j \in (i + 1)..Len(ls) :
                      ~(ls[j] \in ColourLines /\ ColourCodeOf(ls[j]) = c)])]

\* The COLOUR headers the loop of parse_color_definition has been through.
ColourDone ==
    LET all == SelectSeq(input, LAMBDA l : l \in ColourLines \cup {L_ColNoHash})
    IN SubSeq(all, 1, Len(all) - Len(headers))

\* C13: the registry parse_color_definition returns holds exactly the codes
\* of the COLOUR headers of the input, each with the Material of the last
\* header of that code, whether the code is written in decimal or with 0x;
\* a header of another key (`colour`) adds nothing; while the loop runs the
\* registry is that of the headers it has been through.
C13_RegistryByCode ==
    /\ pc = "colour" => materials = RegistryOf(ColourDone)
    /\ pc = "colour_done" => result = Ok(RegistryOf(input))

C13_Witness ==
    /\ pc = "colour_done"
    /\ input = <<L_ColRed4, L_ColGrey7, L_ColLower, L_ColBlue4>>
    /\ DOMAIN result.val = {U32(4), U32(7)}
    /\ result.val[U32(4)].name = <<"B">>

\* The k-th of the twelve numbers of the type-1 line under test, and the
\* entry of the returned matrix at a row and a column.
NumberAt(k) == IF fn_input.nums[k] = W_7 THEN 7 ELSE 0
EntryAt(row, col) == fn_output.val.matrix[col][row]

\* What parse_line_1 returns besides the matrix: the colour of the code and
\* the rest of the line as the name.
Line1ColourAndName ==
    /\ fn_output.ok
    /\ fn_output.val.color =
         IF fn_input.code = W_4
           THEN [ref |-> "Material", material |-> Registry0[U32(4)]]
           ELSE [ref |-> "Unresolved", code |-> U32(16)]
    /\ fn_output.val.name.original = fn_input.name
    /\ \A c \in 1..4 : EntryAt(4, c) = IF c = 4 THEN 1 ELSE 0

\* C17 as stated: the twelve numbers are taken interleaved, the 1st, 5th
\* and 9th being the translation and the three after each of them a
\* rotation row.
C17_Interleaved ==
    pc = "fn_done"
       => /\ Line1ColourAndName
          /\ \A r \in 1..3 :
               /\ EntryAt(r, 4) = NumberAt(4 * (r - 1) + 1)
               /\ \A c \in 1..3 : EntryAt(r, c) = NumberAt(4 * (r - 1) + 1 + c)

\* C17 as amended: the first three numbers are the translation x, y, z
\* (the fourth column of the matrix) and the nine that follow are the
\* rotation rows, row by row; the bottom row is (0,0,0,1), the colour is
\* that of the code and the rest of the line is the name.
C17_TranslationFirst ==
    pc = "fn_done"
       => /\ Line1ColourAndName
          /\ \A r \in 1..3 :
               /\ EntryAt(r, 4) = NumberAt(r)
               /\ \A c \in 1..3 : EntryAt(r, c) = NumberAt(3 * r + c)

C17_Witness ==
    /\ pc = "fn_done"
    /\ fn_input.nums = [k \in 1..12 |-> IF k \in {2, 6} THEN W_7 ELSE W_0]
    /\ fn_input.name = W_ab
    /\ fn_output.ok
    /\ EntryAt(2, 4) = 7
    /\ EntryAt(1, 3) = 7
    /\ EntryAt(1, 1) = 0

\* White space as the lexer's contract names it.
Blank(ch) == ch \in {" ", "\t", "\r", "\n"}

RECURSIVE StripLeading(_)
StripLeading(s) ==
    IF s # <<>> /\ Blank(Head(s)) THEN StripLeading(Tail(s)) ELSE s

RECURSIVE StripTrailing(_)
StripTrailing(s) ==
    IF s # <<>> /\ Blank(s[Len(s)]) THEN StripTrailing(SubSeq(s, 1, Len(s) - 1)) ELSE s

\* The longest prefix of s without white space.
RECURSIVE Run(_)
Run(s) == IF s = <<>> \/ Blank(Head(s)) THEN <<>> ELSE <<Head(s)>> \o Run(Tail(s))

\* C18: next_token fails with EndOfLine exactly when the text holds nothing
\* but white space (space, tab, CR, LF); otherwise, in normal mode, it
\* returns the longest run without white space that follows the leading
\* white space and leaves the iterator after the one white-space character
\* that ended the run; in glob mode it returns the text without its leading
\* and trailing white space, the white space inside kept, and leaves the
\* iterator empty.
C18_NextToken ==
    pc = "fn_done" =>
      LET body == StripLeading(fn_input.text) IN
      IF body = <<>>
        THEN ~fn_output.ok /\ fn_output.err.kind = "EndOfLine"
      ELSE IF ~fn_input.glob
        THEN fn_output = OkRest(Run(body), Drop(body, Len(Run(body)) + 1))
      ELSE fn_output = OkRest(StripTrailing(body), <<>>)

\* The key a FILE line's name is stored under.
FileKeyOf(l) == IF l = L_FileA THEN <<"a">> ELSE <<"b">>

\* The keys of the FILE lines of ls that are met after a comment with text,
\* no other such FILE line lying in between; described tells whether such a
\* comment was found before ls.
RECURSIVE DescribedFileKeys(_, _)
DescribedFileKeys(ls, described) ==
    IF ls = <<>> THEN {}
    ELSE IF Head(ls) \in FileLines
      THEN (IF described THEN {FileKeyOf(Head(ls))} ELSE {})
             \cup DescribedFileKeys(Tail(ls), FALSE)
    ELSE IF Head(ls) \in CommentLines /\ CommentTextOf(Head(ls)) # <<>>
      THEN DescribedFileKeys(Tail(ls), TRUE)
    ELSE DescribedFileKeys(Tail(ls), described)

\* C19: a document that parse_inner returns together with a pending
\* sub-model name has a non-empty description.  So in multipart mode a FILE
\* line read while the running document has no description yet gives no
\* subparts entry (the keys of subparts are names of FILE lines met with a
\* description), and the invocation that read it goes on: the lines after it
\* give the description and the commands of the same document.
C19_PendingHasDescription ==
    /\ (pc = "return" /\ next.some) => CurrentDocument.description # <<>>
    /\ multipart => DOMAIN subparts \subseteq DescribedFileKeys(input, FALSE)
    /\ (pc = "done" /\ multipart) =>
          DOMAIN result.val.subparts = DescribedFileKeys(input, FALSE)
    /\ (multipart /\ InDocument) =>
          \A i \in 1..(Len(Segment) - 1) :
             Segment[i] \in FileLines =>
                /\ FirstNonEmptyComment(SubSeq(Segment, 1, i)) = <<>>
                /\ description = FirstNonEmptyComment(Segment)
                /\ commands = CommandsOf(Segment, FALSE)

C19_Witness ==
    /\ pc = "done" /\ multipart
    /\ input = <<L_FileA, L_PartRef, L_Description, L_FileB>>
    /\ DOMAIN result.val.subparts = {<<"b">>}
    /\ result.val.body.description = <<"d">>
    /\ Len(result.val.body.commands) = 1
    /\ result.val.body.commands[1].cmd = "PartReference"

\* The positions in the stream of the FILE lines of ls that are met after a
\* comment with text, no other such FILE line lying in between; i lines
\* precede ls, and described tells whether such a comment was found in them.
RECURSIVE BoundaryIndices(_, _, _)
BoundaryIndices(ls, i, described) ==
    IF ls = <<>> THEN <<>>
    ELSE IF Head(ls) \in FileLines /\ described
      THEN <<i + 1>> \o BoundaryIndices(Tail(ls), i + 1, FALSE)
    ELSE IF Head(ls) \in CommentLines /\ CommentTextOf(Head(ls)) # <<>>
      THEN BoundaryIndices(Tail(ls), i + 1, TRUE)
    ELSE BoundaryIndices(Tail(ls), i + 1, described)

Boundaries == BoundaryIndices(input, 0, FALSE)

LastBoundary == IF Boundaries = <<>> THEN 0 ELSE Last(Boundaries)

ErrorFree == \A i \in 1..Len(input) : input[i] \notin ErrorLines \cup {IoFailure}

\* C20: parse_multipart_document over a finite line stream terminates, and
\* it fails only over a line in error.  Every line is taken once, in the
\* order of the stream.  With B the number of FILE lines met with a
\* non-empty description, the running invocation of parse_inner is number
\* 1 + B and started at the line after the last such FILE line (the first
\* one at the start of the stream); at the end parse_inner has been invoked
\* 1 + B times and the last invocation ended at the end of the input with
\* no pending name.
C20_InvocationState ==
    /\ count = Len(input)
    /\ pc = "read" =>
          /\ calls = 1 + Len(Boundaries)
          /\ docStart = LastBoundary
    /\ (pc = "return" /\ next.some) =>
          /\ calls = Len(Boundaries)
          /\ LastBoundary = Len(input)
    /\ (pc = "return" /\ ~next.some) =>
          /\ calls = 1 + Len(Boundaries)
          /\ docStart = LastBoundary
    /\ pc = "done" =>
          /\ result.ok
          /\ calls = 1 + Len(Boundaries)
          /\ docStart = LastBoundary
          /\ ~next.some /\ ~pending.some
          /\ ErrorFree
    /\ pc = "failed" => ~ErrorFree

C20_TakeStep ==
    /\ input' # input =>
          /\ input' = Append(input, Last(input'))
          /\ count' = count + 1
          /\ calls' = calls
    /\ calls' # calls =>
          /\ calls' = calls + 1
          /\ docStart' = Len(input)
          /\ input' = input

C20_Terminates ==
    /\ [](C20_InvocationState)
    /\ [][C20_TakeStep]_vars
    /\ <>(pc \in {"done", "failed"})

C20_Witness ==
    /\ pc = "done"
    /\ input = <<L_Description, L_FileA, L_FileB, L_Description>>
    /\ calls = 2
    /\ docStart = 2
    /\ DOMAIN result.val.subparts = {<<"a">>}
    /\ result.val.subparts[<<"a">>].description = <<"d">>

\* n mod 256 of a u32 kept as its halves: 2^16 is a multiple of 256.
Mod256(n) == n[2] % 256

\* The alpha and the luminance a Material holds, in the header's own fields
\* or in those of its GLITTER or SPECKLE material.
StoredAlpha(m, place) ==
    IF place = K_CODE THEN m.color.a ELSE m.finish.material.value.a

StoredLuminance(m, place) ==
    IF place = K_CODE THEN m.luminance ELSE m.finish.material.luminance

\* C21: `ALPHA n` and `LUMINANCE n`, n any u32 written in decimal or with
\* 0x, in a COLOUR header or in its GLITTER or SPECKLE clause, are accepted
\* and store n mod 256; the other of the two keeps its default (alpha 255,
\* luminance 0).
C21_StoredByTruncation ==
    pc = "fn_done" =>
      /\ fn_output.ok
      /\ IF fn_input.key = K_ALPHA
           THEN /\ StoredAlpha(fn_output.val, fn_input.place) = Mod256(fn_input.n)
                /\ StoredLuminance(fn_output.val, fn_input.place) = 0
           ELSE /\ StoredLuminance(fn_output.val, fn_input.place) = Mod256(fn_input.n)
                /\ StoredAlpha(fn_output.val, fn_input.place) = 255

C21_Witness ==
    /\ pc = "fn_done"
    /\ fn_input = [key |-> K_ALPHA, place |-> K_CODE, n |-> <<0, 256>>, hex |-> FALSE]
    /\ RenderAlpha(fn_input) =
         Join(<<W_Red, K_CODE, W_4, K_VALUE, W_ValueRgb, K_EDGE, W_EdgeRgb,
                K_ALPHA, <<"2", "5", "6">>>>, SP)
    /\ fn_output.ok
    /\ fn_output.val.color.a = 0

Buffers == {display_list[k].opaque : k \in DOMAIN display_list}
             \cup {display_list[k].translucent : k \in DOMAIN display_list}

\* The number of instances stored in the items of m.
RECURSIVE StoredInstances(_, _)
StoredInstances(m, keys) ==
    IF keys = {} THEN 0
    ELSE LET k == CHOOSE x \in keys : TRUE IN
         Len(m[k].opaque.model_view_matrices) + Len(m[k].translucent.model_view_matrices)
           + StoredInstances(m, keys \ {k})

\* C22: after any sequence of add and update_data calls, the count of every
\* instance buffer, opaque or translucent, is the length of each of its four
\* vectors, and DisplayList::count is the number of instances stored.
C22_CountIsLength ==
    /\ \A b \in Buffers :
          /\ b.count = Len(b.model_view_matrices)
          /\ b.count = Len(b.materials)
          /\ b.count = Len(b.colors)
          /\ b.count = Len(b.edge_colors)
    /\ DisplayList_count(display_list) = StoredInstances(display_list, DOMAIN display_list)

====
